---- MODULE Spec2Model ----
(***************************************************************************)
(* Generative Studio: the seeded composition generator, the animation      *)
(* engine and the canvas component that drives them.                       *)
(*                                                                         *)
(* Numbers.  The 32-bit words of the mulberry32 generator are kept exactly *)
(* as pairs <<hi, lo>> of 16-bit halves.  Floating-point quantities are    *)
(* kept in fixed point: lengths and positions in hundredths of a canvas    *)
(* unit, a uniform sample as its 32-bit numerator over 2^32, trigonometric *)
(* values in thousandths over a table of 16 directions per turn.           *)
(***************************************************************************)
EXTENDS Integers, Sequences, FiniteSets, TLC

VARIABLES
  \* two successive generation runs on the same arguments
  args,         \* {width, height, controls, palette, seed, text}
  pc,           \* position of the current run
  rngT,         \* the variable t closed over by createRandom's generator
  lcgS,         \* the variable s closed over by addAnimationProperties' random
  built,        \* the shapes generated so far by the current run
  animated,     \* the shapes mapped so far by addAnimationProperties
  run,          \* 1 or 2
  first,        \* the collection returned by run 1
  \* the animated collection and what each tick did to it
  shapesRef,    \* shapesRef.current
  generated,    \* the collection as addAnimationProperties returned it
  ticks,        \* calls of updateAnimatedShapes so far
  hitX, hitY,           \* per shape, the edge past which the last tick carried it
  prevHitX, prevHitY,   \* the same for the tick before
  \* the Canvas component and the browser around it
  isAnimating,  \* React state
  animate,      \* the values closed over by the current animate callback
  animationRef, \* animationRef.current
  lastTimeRef,  \* lastTimeRef.current
  pending,      \* requestAnimationFrame callbacks not yet run or cancelled
  nextId,       \* the next requestAnimationFrame handle
  now,          \* the clock, in ms
  pausedFor,    \* of the time since lastTimeRef was written, the ms spent paused
  surface,      \* the fills and draws the canvas has received
  drawn,        \* the shapes drawn by the last frame, in drawing order
  events,       \* the clicks, changes of props and frames so far, oldest first
  \* one call of a library function from outside the generator
  call,         \* the function called and its arguments
  result        \* what it has returned (the values, for a RandomUtils object)

genVars    == <<args, pc, rngT, lcgS, built, animated, run, first>>
animVars   == <<shapesRef, generated, ticks, hitX, hitY, prevHitX, prevHitY>>
canvasVars == <<isAnimating, animate, animationRef, lastTimeRef, pending, nextId,
                now, pausedFor, surface, drawn, events>>
libVars    == <<call, result>>
vars == <<genVars, animVars, canvasVars, libVars>>

\* ------------------------------------------------------------------------
\* 32-bit word arithmetic (Math.imul, ^, |, >>>, + truncated by ToInt32)
\* ------------------------------------------------------------------------
Pow2(k) == 2 ^ k

RECURSIVE XorBits(_, _)
XorBits(a, b) ==
  IF a = 0 THEN b
  ELSE IF b = 0 THEN a
  ELSE ((a + b) % 2) + 2 * XorBits(a \div 2, b \div 2)

RECURSIVE OrBits(_, _)
OrBits(a, b) ==
  IF a = 0 THEN b
  ELSE IF b = 0 THEN a
  ELSE (IF a % 2 = 1 \/ b % 2 = 1 THEN 1 ELSE 0) + 2 * OrBits(a \div 2, b \div 2)

\* the operations on 4-bit digits, tabulated: entry 16 * a + b + 1
XorTab == [k \in 1..256 |-> XorBits((k - 1) \div 16, (k - 1) % 16)]
OrTab  == [k \in 1..256 |-> OrBits((k - 1) \div 16, (k - 1) % 16)]

Xor16(a, b) ==
  XorTab[16 * (a % 16) + (b % 16) + 1]
    + 16 * XorTab[16 * ((a \div 16) % 16) + ((b \div 16) % 16) + 1]
    + 256 * XorTab[16 * ((a \div 256) % 16) + ((b \div 256) % 16) + 1]
    + 4096 * XorTab[16 * (a \div 4096) + (b \div 4096) + 1]

Or16(a, b) ==
  OrTab[16 * (a % 16) + (b % 16) + 1]
    + 16 * OrTab[16 * ((a \div 16) % 16) + ((b \div 16) % 16) + 1]
    + 256 * OrTab[16 * ((a \div 256) % 16) + ((b \div 256) % 16) + 1]
    + 4096 * OrTab[16 * (a \div 4096) + (b \div 4096) + 1]

WXor(a, b) == <<Xor16(a[1], b[1]), Xor16(a[2], b[2])>>

WOrLow(a, c) == <<a[1], Or16(a[2], c)>>

\* a >>> k for 0 < k < 16
WShr(a, k) ==
  <<a[1] \div Pow2(k), (a[1] % Pow2(k)) * Pow2(16 - k) + a[2] \div Pow2(k)>>

WAdd(a, b) ==
  LET lo == a[2] + b[2]
  IN  <<(a[1] + b[1] + lo \div 65536) % 65536, lo % 65536>>

\* low 16 bits of x * y for 16-bit x, y
MulLow16(x, y) == (x * (y % 256) + ((x * (y \div 256)) % 256) * 256) % 65536

\* x * y for 16-bit x, y, as a 32-bit word
MulFull16(x, y) ==
  LET p0 == x * (y % 256)
      p1 == x * (y \div 256)
  IN  WAdd(<<p0 \div 65536, p0 % 65536>>, <<p1 \div 256, (p1 % 256) * 256>>)

\* w with h added into its high half
WAddHigh(w, h) == <<(w[1] + h) % 65536, w[2]>>

\* Math.imul
WImul(a, b) ==
  WAddHigh(MulFull16(a[2], b[2]), MulLow16(a[1], b[2]) + MulLow16(a[2], b[1]))

\* ToInt32 of a double holding seed + 0x6d2b79f5, |seed| < 2^30
WordOf(n) == <<(n \div 65536) % 65536, n % 65536>>

\* ------------------------------------------------------------------------
\* random.ts: createRandom (mulberry32) and createRandomUtils
\* ------------------------------------------------------------------------
\* a generator whose state outlives the call that created it
createRandomCarried(seed) == IF run = 2 THEN rngT ELSE WordOf(seed + 1831565813)

\* the closure variable t right after createRandom(seed)
createRandom(seed) == WordOf(seed + 1831565813)

\* t = Math.imul(t ^ (t >>> 15), t | 1)
mixFirst(t) == WImul(WXor(t, WShr(t, 15)), WOrLow(t, 1))

\* t ^= t + Math.imul(t ^ (t >>> 7), t | 61)
mixSecond(t) == WXor(t, WAdd(t, WImul(WXor(t, WShr(t, 7)), WOrLow(t, 61))))

\* one call of the returned closure: the new value of t
NextT(t) == mixSecond(mixFirst(t))

\* the value returned by that call, as the numerator of u / 2^32
OutOf(t) == WXor(t, WShr(t, 14))

\* numerator of a sample reduced to 16 and to 12 bits
U16(u) == u[1]
U12(u) == u[1] \div 16

\* division truncating toward zero, as a double's product would be cut
TDiv(a, b) == IF a >= 0 THEN a \div b ELSE -((-a) \div b)

\* range: min + random() * (max - min)
range(u, min, max) == min + (U12(u) * (max - min)) \div 4096

\* pick: arr[Math.floor(random() * arr.length)]
pickIndex(u, len) == (u[1] * len + (u[2] * len) \div 65536) \div 65536 + 1
pick(u, arr) == arr[pickIndex(u, Len(arr))]

\* chance: random() < probability, the probability in percent
chance(u, pct) == U16(u) * 100 < pct * 65536

\* int: Math.floor(min + random() * (max - min + 1)) for integers min <= max
int(u, min, max) == min + pickIndex(u, max - min + 1) - 1

\* cos and sin over 16 directions per turn, in thousandths
CosTab == <<1000, 924, 707, 383, 0, -383, -707, -924,
            -1000, -924, -707, -383, 0, 383, 707, 924>>
SinTab == <<0, 383, 707, 924, 1000, 924, 707, 383,
            0, -383, -707, -924, -1000, -924, -707, -383>>
Cos16(k) == CosTab[(k % 16) + 1]
Sin16(k) == SinTab[(k % 16) + 1]

\* the direction index of an angle range(0, 2*PI)
dirOf(u) == U16(u) \div 4096

\* sqrt(-2 * log(u1)) over 8 bands of u1, in thousandths
RadTab == <<2355, 1830, 1525, 1286, 1073, 866, 644, 359>>

\* gaussian: sqrt(-2 ln u1) * cos(2 PI u2), in thousandths
gaussian(u1, u2) == TDiv(RadTab[U16(u1) \div 8192 + 1] * Cos16(dirOf(u2)), 1000)

\* The methods of the object createRandomUtils returns, each called with the
\* closure in state t: the value returned and the state the closure is left in
utilsRange(t, min, max) == [value |-> range(OutOf(NextT(t)), min, max), t |-> NextT(t)]

utilsInt(t, min, max) == [value |-> int(OutOf(NextT(t)), min, max), t |-> NextT(t)]

utilsPick(t, arr) == [value |-> pick(OutOf(NextT(t)), arr), t |-> NextT(t)]

utilsChance(t, pct) == [value |-> chance(OutOf(NextT(t)), pct), t |-> NextT(t)]

\* a gaussian that rejects a first sample below one half and draws again
utilsGaussianRetrying(t) ==
  IF U16(OutOf(NextT(t))) < 32768
  THEN [value |-> gaussian(OutOf(NextT(NextT(t))), OutOf(NextT(NextT(NextT(t))))),
        t |-> NextT(NextT(NextT(t)))]
  ELSE [value |-> gaussian(OutOf(NextT(t)), OutOf(NextT(NextT(t)))),
        t |-> NextT(NextT(t))]

utilsGaussian(t) ==
  [value |-> gaussian(OutOf(NextT(t)), OutOf(NextT(NextT(t)))), t |-> NextT(NextT(t))]

\* ------------------------------------------------------------------------
\* palettes.ts: palettes, varyColor
\* ------------------------------------------------------------------------
\* a colour string is the sequence of its characters after '#'
Aurora ==
  [name |-> "Aurora",
   background |-> <<"0", "d", "1", "1", "1", "7">>,
   anchor  |-> << <<"5", "8", "a", "6", "f", "f">>, <<"3", "9", "d", "3", "5", "3">>, <<"a", "3", "7", "1", "f", "7">> >>,
   accent  |-> << <<"3", "8", "8", "b", "f", "d">>, <<"2", "e", "a", "0", "4", "3">>, <<"8", "b", "5", "c", "f", "6">> >>,
   texture |-> << <<"1", "f", "6", "f", "e", "b", "3", "3">>, <<"2", "3", "8", "6", "3", "5", "3", "3">>,
                  <<"6", "e", "4", "0", "c", "9", "3", "3">> >>]

Mono ==
  [name |-> "Mono",
   background |-> <<"1", "1", "1", "1", "1", "1">>,
   anchor  |-> << <<"f", "f", "f", "f", "f", "f">>, <<"e", "0", "e", "0", "e", "0">>, <<"c", "0", "c", "0", "c", "0">> >>,
   accent  |-> << <<"a", "0", "a", "0", "a", "0">>, <<"8", "0", "8", "0", "8", "0">>, <<"d", "0", "d", "0", "d", "0">> >>,
   texture |-> << <<"f", "f", "f", "f", "f", "f", "2", "2">>, <<"e", "0", "e", "0", "e", "0", "2", "2">>,
                  <<"c", "0", "c", "0", "c", "0", "2", "2">> >>]


\* the remainder of the floored division of s * 9301 + 49297 by 233280,
\* computed without leaving 32 bits
LcgFloorMod(s) ==
  (((((s % 233280) * 9000) % 233280) + (s % 233280) * 301) + 49297) % 233280

\* (s * 9301 + 49297) % 233280: the remainder has the sign of the dividend,
\* which is negative exactly when s < -5
LcgStep(s) ==
  IF s >= -5 \/ LcgFloorMod(s) = 0 THEN LcgFloorMod(s) ELSE LcgFloorMod(s) - 233280

\* the digits toString(16) writes
HexDigits == <<"0", "1", "2", "3", "4", "5", "6", "7", "8", "9",
               "a", "b", "c", "d", "e", "f">>

\* the value parseInt gives a hexadecimal digit, in either case
hexValue(ch) ==
  CASE ch = "A" -> 10 [] ch = "B" -> 11 [] ch = "C" -> 12
    [] ch = "D" -> 13 [] ch = "E" -> 14 [] ch = "F" -> 15
    [] OTHER -> (CHOOSE v \in 0..15 : HexDigits[v + 1] = ch)

\* parseInt(baseColor.slice(a, a + 2), 16)
parseHex2(c, a) == hexValue(c[a]) * 16 + hexValue(c[a + 1])

\* n.toString(16) for n >= 0
RECURSIVE toString16(_)
toString16(n) ==
  IF n < 16 THEN <<HexDigits[n + 1]>>
  ELSE toString16(n \div 16) \o <<HexDigits[(n % 16) + 1]>>

\* n.toString(16).padStart(2, "0"): a sign and a third digit are kept
toHex2(n) ==
  IF n < 0 THEN <<"-">> \o toString16(-n)
  ELSE IF n < 16 THEN <<"0">> \o toString16(n)
  ELSE toString16(n)

\* Math.round of v / d for d > 0
RoundDiv(v, d) == (2 * v + d) \div (2 * d)

Clamp(lo, hi, v) == IF v < lo THEN lo ELSE IF v > hi THEN hi ELSE v

\* an adjustment that is never switched off
varyAdjustFloored(variation, seed) ==
  LET hash == LcgStep(seed)
  IN  TDiv((2 * hash - 233280) * (variation + 1) * 3 * 10, 23328)

\* adjust = (rnd - 0.5) * 2 * (variation / 100) * 0.3, in 1e-5
varyAdjust(variation, seed) ==
  LET hash == LcgStep(seed)
  IN  TDiv((2 * hash - 233280) * variation * 3 * 10, 23328)

\* the channel without Math.min(255, Math.max(0, ...))
varyChannelUnclamped(ch, adjust) == RoundDiv(ch * (100000 + adjust), 100000)

varyChannel(ch, adjust) == Clamp(0, 255, RoundDiv(ch * (100000 + adjust), 100000))

varyColor(baseColor, variation, seed) ==
  LET adjust == varyAdjust(variation, seed)
  IN  toHex2(varyChannel(parseHex2(baseColor, 1), adjust))
        \o toHex2(varyChannel(parseHex2(baseColor, 3), adjust))
        \o toHex2(varyChannel(parseHex2(baseColor, 5), adjust))

\* ------------------------------------------------------------------------
\* shapes.ts: the shape constructors; absent fields hold Undefined / NoColor
\* ------------------------------------------------------------------------
Undefined == -1
NoColor == <<>>

BaseShape(type, x, y) ==
  [type |-> type, x |-> x, y |-> y, rotation |-> 0,
   radius |-> Undefined, width |-> Undefined, height |-> Undefined,
   cornerRadius |-> Undefined, size |-> Undefined,
   x2 |-> Undefined, y2 |-> Undefined,
   fill |-> NoColor, stroke |-> NoColor, strokeWidth |-> Undefined]

createCircle(x, y, radius, fill, stroke, strokeWidth, rotation) ==
  [BaseShape("circle", x, y) EXCEPT !.radius = radius, !.fill = fill,
     !.stroke = stroke, !.strokeWidth = strokeWidth, !.rotation = rotation]

createRectangle(x, y, width, height, fill, stroke, strokeWidth, rotation, cornerRadius) ==
  [BaseShape("rectangle", x, y) EXCEPT !.width = width, !.height = height,
     !.fill = fill, !.stroke = stroke, !.strokeWidth = strokeWidth,
     !.rotation = rotation, !.cornerRadius = cornerRadius]

createLine(x, y, x2, y2, stroke, strokeWidth) ==
  [BaseShape("line", x, y) EXCEPT !.x2 = x2, !.y2 = y2,
     !.stroke = stroke, !.strokeWidth = strokeWidth]

createSemicircle(x, y, radius, fill, rotation) ==
  [BaseShape("semicircle", x, y) EXCEPT !.radius = radius, !.fill = fill,
     !.rotation = rotation]

createTriangle(x, y, size, fill, rotation) ==
  [BaseShape("triangle", x, y) EXCEPT !.size = size, !.fill = fill,
     !.rotation = rotation]

\* { ...shape, role }
withRole(shape, role) ==
  [f \in DOMAIN shape \cup {"role"} |-> IF f = "role" THEN role ELSE shape[f]]

\* the states of the closure after 1 .. n calls, starting from t; D holds
\* the states of the calls made so far
RECURSIVE Draws(_, _, _)
Draws(t, D, n) ==
  IF Len(D) >= n THEN D
  ELSE Draws(t, Append(D, NextT(IF D = <<>> THEN t ELSE D[Len(D)])), n)

\* a loop has pushed the shape of r and the generator is left in state r.t
push(st, r) == [shapes |-> Append(st.shapes, r.shape), t |-> r.t]

Min(a, b) == IF a <= b THEN a ELSE b
Max(a, b) == IF a >= b THEN a ELSE b

\* ------------------------------------------------------------------------
\* fontPaths.ts: the glyph table and getTextPathPoints
\* ------------------------------------------------------------------------
\* a text is the sequence of its characters
\* stored outline points, normalised to 0 .. 1, in 1e-4 (four decimals)
fontPaths ==
  [c \in {"H", "I", "A", "S", "0", " "} |->
     CASE c = "H" -> << <<0, 0>>, <<0, 5000>>, <<0, 10000>>, <<3500, 5000>>,
                        <<7000, 0>>, <<7000, 5000>>, <<7000, 10000>> >>
       [] c = "I" -> << <<0, 0>>, <<0, 5000>>, <<0, 10000>> >>
       [] c = "A" -> << <<0, 10000>>, <<2000, 5000>>, <<4000, 0>>, <<6000, 5000>>,
                        <<8000, 10000>> >>
       [] c = "S" -> << <<7000, 1000>>, <<3500, 0>>, <<0, 2500>>, <<3500, 5000>>,
                        <<7000, 7500>>, <<3500, 10000>>, <<0, 9000>> >>
       [] c = "0" -> << <<3000, 0>>, <<0, 5000>>, <<3000, 10000>>, <<6000, 5000>> >>
       [] c = " " -> <<>>]

RECURSIVE Flatten(_)
Flatten(seqs) == IF seqs = <<>> THEN <<>> ELSE Head(seqs) \o Flatten(Tail(seqs))

\* the upper-case mapping of one character; that of the sharp s is two
\* characters long
upperOf(c) ==
  CASE c = "h" -> <<"H">>
    [] c = "i" -> <<"I">>
    [] c = "a" -> <<"A">>
    [] c = "s" -> <<"S">>
    [] c = "ß" -> <<"S", "S">>
    [] OTHER -> <<c>>

toUpperCase(text) == Flatten([k \in 1..Len(text) |-> upperOf(text[k])])

isSpace(c) == c \in {" ", "\t"}

\* text.trim()
RECURSIVE trim(_)
trim(text) ==
  IF text = <<>> THEN <<>>
  ELSE IF isSpace(Head(text)) THEN trim(Tail(text))
  ELSE IF isSpace(text[Len(text)]) THEN trim(SubSeq(text, 1, Len(text) - 1))
  ELSE text

\* a stride that never reaches full resolution
sampleRateCoarse(density) == Max(2, (100 - density) \div 15 + 1)

\* sampleRate = max(1, floor((100 - density) / 15) + 1)
sampleRate(density) == Max(1, (100 - density) \div 15 + 1)

\* the stored points of one letter kept by the stride, placed on the canvas
RECURSIVE letterPoints(_, _, _, _, _, _, _)
letterPoints(letterPath, j, stride, letterX, startY, letterWidth, letterHeight) ==
  IF j > Len(letterPath) THEN <<>>
  ELSE << [x |-> letterX + (letterPath[j][1] * letterWidth) \div 10000,
           y |-> startY + (letterPath[j][2] * letterHeight) \div 10000] >>
       \o letterPoints(letterPath, j + stride, stride, letterX, startY,
                       letterWidth, letterHeight)

\* the table lookup that skips the test of its result
letterPathOfAny(char) == fontPaths[IF char \in DOMAIN fontPaths THEN char ELSE "I"]

\* fontPaths[char], and the points the loop guarded by if (letterPath) visits
letterPathOf(char) == IF char \in DOMAIN fontPaths THEN fontPaths[char] ELSE <<>>

\* availableWidth / length without the cap by the canvas height
letterWidthUncapped(n, canvasWidth, canvasHeight) ==
  (canvasWidth - ((canvasWidth * 8) \div 100) * 2) \div n

\* letterWidth = Math.min(availableWidth / upperText.length, canvasHeight * 0.6)
letterWidthOf(n, canvasWidth, canvasHeight) ==
  Min((canvasWidth - ((canvasWidth * 8) \div 100) * 2) \div n,
      (canvasHeight * 6) \div 10)

getTextPathPoints(text, canvasWidth, canvasHeight, density) ==
  LET upperText     == toUpperCase(text)
      n             == Len(upperText)
      letterWidth   == letterWidthOf(Max(n, 1), canvasWidth, canvasHeight)
      letterHeight  == (letterWidth * 12) \div 10
      letterSpacing == letterWidth \div 10
      totalWidth    == n * letterWidth + (n - 1) * letterSpacing
      startX        == (canvasWidth - totalWidth) \div 2
      startY        == (canvasHeight - letterHeight) \div 2
      stride        == sampleRate(density)
      letterX(i)    == startX + (i - 1) * (letterWidth + letterSpacing)
  IN  IF n = 0
      THEN [points |-> <<>>, letterBounds |-> <<>>]
      ELSE [points |->
              Flatten([i \in 1..n |->
                 letterPoints(letterPathOf(upperText[i]), 1, stride, letterX(i),
                              startY, letterWidth, letterHeight)]),
            letterBounds |-> [i \in 1..n |-> [x |-> letterX(i), width |-> letterWidth]]]

\* ------------------------------------------------------------------------
\* generator.ts
\* ------------------------------------------------------------------------
\* the direction index (16 per turn) of an angle given in 1/100 degree
dirOfDegrees(cdeg) == RoundDiv(cdeg, 2250) % 16

\* Math.atan2(dy, dx) as a direction index: the direction closest to (dx, dy)
atan2Dir(dy, dx) ==
  LET score(k) == dx * Cos16(k) + dy * Sin16(k)
  IN  CHOOSE k \in 0..15 :
        /\ \A m \in 0..15 : score(m) <= score(k)
        /\ \A m \in 0..(k - 1) : score(m) < score(k)

\* the end point of a segment of the given length and direction
endX(x, dir, length) == x + TDiv(Cos16(dir) * length, 1000)
endY(y, dir, length) == y + TDiv(Sin16(dir) * length, 1000)

\* nextPoint is <<>> when absent; flowAngle is Undefined when absent
createShapeAtPoint(x, y, size, shapeType, color, rotation, nextPoint, flowAngle) ==
  CASE shapeType = "circle" ->
         createCircle(x, y, size, color, NoColor, Undefined, rotation)
    [] shapeType = "semicircle" ->
         createSemicircle(x, y, size, color,
                          IF flowAngle # Undefined THEN flowAngle ELSE rotation)
    [] shapeType = "triangle" ->
         createTriangle(x, y, size * 2, color,
                        IF flowAngle # Undefined THEN flowAngle ELSE rotation)
    [] shapeType = "rectangle" ->
         createRectangle(x, y, (size * 18) \div 10, (size * 18) \div 10, color,
                         NoColor, Undefined, rotation, Undefined)
    [] shapeType = "line" ->
         LET angle  == IF flowAngle # Undefined THEN dirOfDegrees(flowAngle)
                       ELSE IF nextPoint # <<>>
                            THEN atan2Dir(nextPoint[1].y - y, nextPoint[1].x - x)
                            ELSE dirOfDegrees(rotation)
             length == (size * 25) \div 10
         IN  createLine(x, y, endX(x, angle, length), endY(y, angle, length),
                        color, Max(200, (size * 3) \div 10))
    [] OTHER ->
         createCircle(x, y, size, color, NoColor, Undefined, rotation)

\* the text shapes layered by role, as the free-form shapes are
textShapeAtLayered(config, points, i, size, chaosOffset, t) ==
  [shape |-> withRole(createShapeAtPoint(points[i + 1].x, points[i + 1].y, size,
                        config.controls.pathShape, config.palette.anchor[1], 0,
                        <<>>, Undefined),
                      IF i % 3 = 0 THEN "anchor"
                      ELSE IF i % 3 = 1 THEN "accent" ELSE "texture"),
   t |-> Draws(t, <<>>, 5)[5]]

\* the body of the loop of generateTextComposition, D the closure states
\* after each of its five calls of the generator
textShapeOf(config, points, i, size, chaosOffset, D) ==
  LET c        == config.controls
      U(k)     == OutOf(D[k])
      offsetX  == TDiv(gaussian(U(1), U(2)) * chaosOffset, 1000)
      offsetY  == TDiv(gaussian(U(3), U(4)) * chaosOffset, 1000)
      x        == points[i + 1].x + offsetX
      y        == points[i + 1].y + offsetY
      rotation == TDiv(range(U(5), -3000, 3000) * c.chaos, 100)
      colorIndex == i % Len(config.palette.anchor)
      color    == varyColor(config.palette.anchor[colorIndex + 1],
                            c.paletteVariation, config.seed + i)
      nextPoint == IF i < Len(points) - 1 THEN <<points[i + 2]>> ELSE <<>>
      orientFlowAngle == IF c.animationMode = "drift" THEN c.flowAngle * 100
                         ELSE Undefined
  IN  [shape |-> withRole(createShapeAtPoint(x, y, size, c.pathShape, color, rotation,
                                             nextPoint, orientFlowAngle), "anchor"),
       t |-> D[5]]

\* one iteration of the loop of generateTextComposition, from closure state t
textShapeAt(config, points, i, size, chaosOffset, t) ==
  textShapeOf(config, points, i, size, chaosOffset, Draws(t, <<>>, 5))

\* size of every shape placed in text mode
textSize(config) ==
  (((Min(config.width, config.height) * 25) \div 1000) * (10 + 2 * config.controls.scale))
    \div 100

\* Chaos affects offset from path
textChaosOffset(config) == (config.controls.chaos * textSize(config) * 2) \div 100

textPoints(config) ==
  getTextPathPoints(config.text, config.width, config.height,
                    config.controls.density).points

\* the loop of generateTextComposition; i is shapes.length
RECURSIVE textLoop(_, _, _, _, _)
textLoop(config, points, size, chaosOffset, st) ==
  IF Len(st.shapes) >= Len(points) THEN st
  ELSE textLoop(config, points, size, chaosOffset,
                push(st, textShapeAt(config, points, Len(st.shapes), size,
                                     chaosOffset, st.t)))

\* generateTextComposition once getTextPathPoints has returned the points
textCompositionOf(config, points, t) ==
  IF config.text = <<>> \/ Len(points) = 0
  THEN [shapes |-> <<>>, t |-> t]
  ELSE textLoop(config, points, textSize(config), textChaosOffset(config),
                [shapes |-> <<>>, t |-> t])

\* generateTextComposition, run on the closure state t of its createRandomUtils
generateTextComposition(config, t) == textCompositionOf(config, textPoints(config), t)

\* Math.ceil(Math.sqrt(n))
ceilSqrt(n) == CHOOSE k \in 0..n : k * k >= n /\ (k = 0 \/ (k - 1) * (k - 1) < n)

\* count of generateAnchors: Math.max(1, Math.floor(1 + (density / 100) * 3))
anchorCount(density) == Max(1, (100 + density * 3) \div 100)

\* Math.ceil in place of Math.floor
accentCountCeil(density) == (density * 15 + 99) \div 100

\* count of generateAccents: Math.floor((density / 100) * 15)
accentCount(density) == (density * 15) \div 100

\* Math.round in place of Math.floor
textureCountRound(density) == ((density - 40) * 50 + 30) \div 60

\* count of generateTexture: Math.floor(((density - 40) / 60) * 50)
textureCount(density) == ((density - 40) * 50) \div 60

\* the body of the loop of generateAnchors, D the closure states after each
\* of the calls of the generator it can make
anchorOf(width, height, controls, palette, seed, i, size, gridSize, D) ==
  LET useGrid  == controls.structure > 50
      p        == IF useGrid THEN 4 ELSE 2      \* draws used by the placement
      q        == IF controls.chaos > 30 THEN p + 3 ELSE p + 2
      U(k)     == OutOf(D[k])
      cellW    == width \div gridSize
      cellH    == height \div gridSize
      chaosAmount == (controls.chaos * cellW * 4) \div 1000
      x == IF useGrid
           THEN (cellW * (2 * (i % gridSize) + 1)) \div 2
                  + TDiv(gaussian(U(1), U(2)) * chaosAmount, 1000)
           ELSE range(U(1), size, width - size)
      y == IF useGrid
           THEN (cellH * (2 * (i \div gridSize) + 1)) \div 2
                  + TDiv(gaussian(U(3), U(4)) * chaosAmount, 1000)
           ELSE range(U(2), size, height - size)
      shapeType == pick(U(p + 1), <<"circle", "rectangle", "circle">>)
      color    == varyColor(pick(U(p + 2), palette.anchor),
                            controls.paletteVariation, seed + i)
      rotation == IF controls.chaos > 30
                  THEN TDiv(range(U(p + 3), -4500, 4500) * controls.chaos, 100)
                  ELSE 0
  IN  IF shapeType = "circle"
      THEN [shape |-> withRole(createCircle(x, y,
                        (size * range(U(q + 1), 600, 1000)) \div 1000,
                        color, NoColor, Undefined, rotation), "anchor"),
            t |-> D[q + 1]]
      ELSE [shape |-> withRole(createRectangle(x, y,
                        (size * range(U(q + 1), 800, 1500)) \div 1000,
                        (size * range(U(q + 2), 800, 1500)) \div 1000,
                        color, NoColor, Undefined, rotation,
                        IF chance(U(q + 3), 60) THEN size \div 10 ELSE 0), "anchor"),
            t |-> D[q + 3]]

\* one iteration of the loop of generateAnchors, from closure state t (it
\* calls the generator ten times at most)
anchorAt(width, height, controls, palette, seed, i, size, gridSize, t) ==
  anchorOf(width, height, controls, palette, seed, i, size, gridSize,
           Draws(t, <<>>, 4 + 3 + 3))

\* size and gridSize of generateAnchors
anchorSize(width, height, controls) ==
  (((Min(width, height) * 15) \div 100) * (100 + 3 * controls.scale)) \div 200

anchorGrid(controls) == ceilSqrt(anchorCount(controls.density) + 2)

\* the loop of generateAnchors; i is shapes.length
RECURSIVE anchorLoop(_, _, _, _, _, _, _, _, _)
anchorLoop(width, height, controls, palette, seed, count, size, gridSize, st) ==
  IF Len(st.shapes) >= count THEN st
  ELSE anchorLoop(width, height, controls, palette, seed, count, size, gridSize,
                  push(st, anchorAt(width, height, controls, palette, seed,
                                    Len(st.shapes), size, gridSize, st.t)))

\* generateAnchors, run on the shared closure state t
generateAnchors(width, height, controls, palette, t, seed) ==
  anchorLoop(width, height, controls, palette, seed, anchorCount(controls.density),
             anchorSize(width, height, controls), anchorGrid(controls),
             [shapes |-> <<>>, t |-> t])

\* the body of the loop of generateAccents, D the closure states after each
\* of the calls of the generator it can make
accentOf(width, height, controls, palette, anchors, seed, i, size, D) ==
  LET orbit    == controls.structure > 60 /\ Len(anchors) > 0
      p        == IF orbit THEN 3 ELSE 2        \* draws used by the placement
      q        == IF controls.chaos > 20 THEN p + 4 ELSE p
      r        == q + 3
      U(k)     == OutOf(D[k])
      anchor   == pick(U(1), anchors)
      distance == (size * range(U(3), 2000, 5000)) \div 1000
      x0 == IF orbit THEN endX(anchor.x, dirOf(U(2)), distance)
            ELSE range(U(1), size, width - size)
      y0 == IF orbit THEN endY(anchor.y, dirOf(U(2)), distance)
            ELSE range(U(2), size, height - size)
      drift    == (size * controls.chaos * 2) \div 100
      x == x0 + (IF controls.chaos > 20
                 THEN TDiv(gaussian(U(p + 1), U(p + 2)) * drift, 1000) ELSE 0)
      y == y0 + (IF controls.chaos > 20
                 THEN TDiv(gaussian(U(p + 3), U(p + 4)) * drift, 1000) ELSE 0)
      color    == varyColor(pick(U(q + 1), palette.accent),
                            controls.paletteVariation, seed + i + 100)
      rotation == TDiv(range(U(q + 2), -3000, 3000) * controls.chaos, 100)
      shapeType == pick(U(q + 3), <<"circle", "rectangle", "line">>)
  IN  IF shapeType = "circle"
      THEN [shape |-> withRole(createCircle(x, y,
                        (size * range(U(r + 1), 400, 800)) \div 1000,
                        IF chance(U(r + 2), 70) THEN color ELSE NoColor,
                        IF chance(U(r + 3), 50) THEN color ELSE NoColor,
                        200, rotation), "accent"),
            t |-> D[r + 3]]
      ELSE IF shapeType = "rectangle"
      THEN [shape |-> withRole(createRectangle(x, y,
                        (size * range(U(r + 1), 500, 1500)) \div 1000,
                        (size * range(U(r + 2), 500, 1500)) \div 1000,
                        IF chance(U(r + 3), 60) THEN color ELSE NoColor,
                        IF chance(U(r + 4), 40) THEN color ELSE NoColor,
                        200, rotation,
                        IF chance(U(r + 5), 50) THEN (size * 15) \div 100 ELSE 0),
                      "accent"),
            t |-> D[r + 5]]
      ELSE LET length == (size * range(U(r + 1), 1000, 3000)) \div 1000
               angle  == dirOf(U(r + 2))
           IN  [shape |-> withRole(createLine(x, y, endX(x, angle, length),
                             endY(y, angle, length), color,
                             range(U(r + 3), 100, 300)), "accent"),
                t |-> D[r + 3]]

\* one iteration of the loop of generateAccents, from closure state t (it
\* calls the generator fifteen times at most)
accentAt(width, height, controls, palette, anchors, seed, i, size, t) ==
  accentOf(width, height, controls, palette, anchors, seed, i, size,
           Draws(t, <<>>, 3 + 4 + 3 + 5))

\* size of generateAccents
accentSize(width, height, controls) ==
  (((Min(width, height) * 6) \div 100) * (50 + controls.scale)) \div 100

\* the loop of generateAccents; i is shapes.length
RECURSIVE accentLoop(_, _, _, _, _, _, _, _, _)
accentLoop(width, height, controls, palette, anchors, seed, count, size, st) ==
  IF Len(st.shapes) >= count THEN st
  ELSE accentLoop(width, height, controls, palette, anchors, seed, count, size,
                  push(st, accentAt(width, height, controls, palette, anchors, seed,
                                    Len(st.shapes), size, st.t)))

\* generateAccents, run on the shared closure state t
generateAccents(width, height, controls, palette, t, anchors, seed) ==
  accentLoop(width, height, controls, palette, anchors, seed,
             accentCount(controls.density), accentSize(width, height, controls),
             [shapes |-> <<>>, t |-> t])

\* a table whose last angle is off the diagonal
snapAnglesOblique == <<0, 4, 2, 13>>

\* the snapped angles 0, PI/2, PI/4, -PI/4 as direction indices
snapAngles == <<0, 4, 2, 14>>

\* the body of the loop of generateTexture, D the closure states after each
\* of the calls of the generator it can make
textureOf(width, height, controls, palette, size, D) ==
  LET U(k)     == OutOf(D[k])
      x        == range(U(1), 0, width)
      y        == range(U(2), 0, height)
      color    == pick(U(3), palette.texture)
      shapeType == pick(U(4), <<"circle", "line", "circle">>)
  IN  IF shapeType = "circle"
      THEN [shape |-> withRole(createCircle(x, y,
                        (size * range(U(5), 300, 1000)) \div 1000,
                        color, NoColor, Undefined, 0), "texture"),
            t |-> D[5]]
      ELSE LET length == (size * range(U(5), 2000, 6000)) \div 1000
               angle  == IF controls.structure > 50 THEN pick(U(6), snapAngles)
                         ELSE dirOf(U(6))
           IN  [shape |-> withRole(createLine(x, y, endX(x, angle, length),
                             endY(y, angle, length), color, 100), "texture"),
                t |-> D[6]]

\* one iteration of the loop of generateTexture, from closure state t (it
\* calls the generator six times at most)
textureAt(width, height, controls, palette, size, t) ==
  textureOf(width, height, controls, palette, size, Draws(t, <<>>, 6))

\* size of generateTexture
textureSize(width, height, controls) ==
  (((Min(width, height) * 15) \div 1000) * (100 + controls.scale)) \div 200

\* the loop of generateTexture; i is shapes.length
RECURSIVE textureLoop(_, _, _, _, _, _, _)
textureLoop(width, height, controls, palette, count, size, st) ==
  IF Len(st.shapes) >= count THEN st
  ELSE textureLoop(width, height, controls, palette, count, size,
                   push(st, textureAt(width, height, controls, palette, size, st.t)))

\* generateTexture, run on the shared closure state t
generateTexture(width, height, controls, palette, t) ==
  IF controls.density < 40
  THEN [shapes |-> <<>>, t |-> t]
  ELSE textureLoop(width, height, controls, palette, textureCount(controls.density),
                   textureSize(width, height, controls), [shapes |-> <<>>, t |-> t])

\* the free-form branch once generateAccents has returned:
\* [...anchors, ...accents, ...texture]
compositionOfAccents(config, anchors, accents) ==
  anchors \o accents.shapes
    \o generateTexture(config.width, config.height, config.controls, config.palette,
                       accents.t).shapes

\* the test without the trim
isTextModeUntrimmed(config) == config.text # <<>>

\* the test of generateComposition: text && text.trim().length > 0
isTextMode(config) == config.text # <<>> /\ Len(trim(config.text)) > 0

\* the free-form branch once generateAnchors has returned
compositionOfAnchors(config, anchors) ==
  compositionOfAccents(config, anchors.shapes,
    generateAccents(config.width, config.height, config.controls, config.palette,
                    anchors.t, anchors.shapes, config.seed))

generateComposition(config) ==
  IF isTextMode(config)
  THEN generateTextComposition(config, createRandom(config.seed)).shapes
  ELSE compositionOfAnchors(config,
         generateAnchors(config.width, config.height, config.controls,
                         config.palette, createRandom(config.seed), config.seed))

\* ------------------------------------------------------------------------
\* palettes.ts (animation part): addAnimationProperties, updateAnimatedShapes
\* Velocities are in 1/1000 unit (1/1000 degree) per normalised step, phases
\* and phase speeds in 1/10000 turn, the pulse factor in 1/10000.
\* ------------------------------------------------------------------------
\* ToBoolean of the string a caller passes for stationaryMode ("" when omitted:
\* the default false); every non-empty string is truthy
ToBoolean(v) == v # ""

\* s after n further calls of random()
RECURSIVE LcgAdvance(_, _)
LcgAdvance(s, n) == IF n = 0 THEN s ELSE LcgAdvance(LcgStep(s), n - 1)

\* every role drifting like texture
roleMultiplierUniform(role) == 10

\* role weight times ten
roleMultiplier(role) == IF role = "anchor" THEN 3 ELSE IF role = "accent" THEN 7 ELSE 10

\* (random() - 0.5) * 3 * chaosMultiplier * roleMultiplier * motionMultiplier
velocityOf(s, chaos, role, motion) ==
  TDiv(TDiv((2 * s - 233280) * 3 * chaos * roleMultiplier(role), 466560) * motion, 100)

\* the callback of shapes.map for the shape of index i, entered with LCG state s0
animateShape(shape, i, s0, chaos, motion, stationaryMode) ==
  LET s1 == LcgStep(LcgAdvance(s0, i))
      s2 == LcgStep(s1)
      s3 == LcgStep(s2)
      s4 == LcgStep(s3)
      s5 == LcgStep(s4)
      s6 == LcgStep(s5)
      s7 == LcgStep(s6)
      s8 == LcgStep(s7)
      velocityScale == IF stationaryMode THEN 0 ELSE 1
      isRound == shape.type \in {"circle", "semicircle"}
      new == [vx |-> velocityOf(s1, chaos, shape.role, motion) * velocityScale,
              vy |-> velocityOf(s2, chaos, shape.role, motion) * velocityScale,
              vRotation |-> IF stationaryMode
                            THEN TDiv(velocityOf(s3, chaos, shape.role, motion) * 3, 10)
                            ELSE velocityOf(s3, chaos, shape.role, motion),
              pulsePhase |-> TDiv(s4 * 1000, 23328),
              pulseSpeed |-> TDiv((318 + TDiv(637 * s5, 233280)) * motion, 1000),
              wobblePhase |-> TDiv(s6 * 1000, 23328),
              wobbleSpeed |-> TDiv((239 + TDiv(477 * s7, 233280)) * motion, 1000),
              wobbleAmount |->
                (IF stationaryMode THEN 400 ELSE 800)
                  + TDiv(TDiv(s8 * (IF stationaryMode THEN 8 ELSE 15) * chaos, 233280)
                           * motion, 100),
              originalRadius |-> IF isRound THEN shape.radius ELSE Undefined,
              originalWidth  |-> IF shape.type = "rectangle" THEN shape.width
                                 ELSE Undefined,
              originalHeight |-> IF shape.type = "rectangle" THEN shape.height
                                 ELSE Undefined,
              originalSize   |-> IF shape.type = "triangle" THEN shape.size
                                 ELSE Undefined,
              wobbleX |-> 0, wobbleY |-> 0]
  IN  [shape |-> new @@ shape, s |-> s8]

\* shapes.map; i is the number of shapes mapped so far
mapped(st, r) == [shapes |-> Append(st.shapes, r.shape), s |-> r.s]

RECURSIVE animateLoop(_, _, _, _, _)
animateLoop(shapes, chaos, motion, stationaryMode, st) ==
  IF Len(st.shapes) >= Len(shapes) THEN st
  ELSE animateLoop(shapes, chaos, motion, stationaryMode,
                   mapped(st, animateShape(shapes[Len(st.shapes) + 1], Len(st.shapes),
                                           st.s, chaos, motion, stationaryMode)))

\* addAnimationProperties; stationaryMode is the value the caller passes
addAnimationProperties(shapes, chaos, motion, seed, stationaryMode) ==
  animateLoop(shapes, chaos, motion, ToBoolean(stationaryMode),
              [shapes |-> <<>>, s |-> seed])

\* a field holding a number that JavaScript treats as true
Truthy(v) == v # Undefined /\ v # 0

padding == 5000

\* Math.sin / Math.cos of a phase given in 1/10000 turn, in thousandths
sinPhase(phase) == Sin16((phase * 16) \div 10000)
cosPhase(phase) == Cos16((phase * 16) \div 10000)

\* v * dt for dt = deltaTime * 0.06, v in 1/1000 and the result in 1/100
stepOf(v, deltaTime) == TDiv(v * deltaTime * 6, 1000)

\* phase speed * dt, both in 1/10000 turn
phaseStepOf(speed, deltaTime) == TDiv(speed * deltaTime * 6, 100)

\* 1 + Math.sin(pulsePhase) * 0.15, in 1/10000
pulseFactorOf(pulsePhase) == 10000 + TDiv(sinPhase(pulsePhase) * 15, 10)

scaleBy(original, pulseFactor) == (original * pulseFactor) \div 10000

pulseSizesCompounding(shape, pulseFactor) ==
  IF shape.type \in {"circle", "semicircle"} /\ Truthy(shape.originalRadius)
  THEN [shape EXCEPT !.radius = scaleBy(shape.radius, pulseFactor)]
  ELSE IF shape.type = "rectangle" /\ Truthy(shape.originalWidth)
            /\ Truthy(shape.originalHeight)
  THEN [shape EXCEPT !.width = scaleBy(shape.width, pulseFactor),
                     !.height = scaleBy(shape.height, pulseFactor)]
  ELSE IF shape.type = "triangle" /\ Truthy(shape.originalSize)
  THEN [shape EXCEPT !.size = scaleBy(shape.size, pulseFactor)]
  ELSE shape

\* the pulsed size fields, from the baseline
pulseSizes(shape, pulseFactor) ==
  IF shape.type \in {"circle", "semicircle"} /\ Truthy(shape.originalRadius)
  THEN [shape EXCEPT !.radius = scaleBy(shape.originalRadius, pulseFactor)]
  ELSE IF shape.type = "rectangle" /\ Truthy(shape.originalWidth)
            /\ Truthy(shape.originalHeight)
  THEN [shape EXCEPT !.width = scaleBy(shape.originalWidth, pulseFactor),
                     !.height = scaleBy(shape.originalHeight, pulseFactor)]
  ELSE IF shape.type = "triangle" /\ Truthy(shape.originalSize)
  THEN [shape EXCEPT !.size = scaleBy(shape.originalSize, pulseFactor)]
  ELSE shape

\* a reflection that loses a fifth of the speed
bounceDamped(pos, v, extent) ==
  IF pos < padding \/ pos > extent - padding
  THEN <<Max(padding, Min(extent - padding, pos)), -TDiv(v * 8, 10)>>
  ELSE <<pos, v>>

bounceUnclamped(pos, v, extent) ==
  IF pos < padding \/ pos > extent - padding THEN <<pos, -v>> ELSE <<pos, v>>

\* bounce off one pair of edges: the new <<position, velocity>>
bounce(pos, v, extent) ==
  IF pos < padding \/ pos > extent - padding
  THEN <<Max(padding, Min(extent - padding, pos)), -v>>
  ELSE <<pos, v>>

\* the body of the loop of updateAnimatedShapes for one shape
updateShape(shape, width, height, deltaTime) ==
  LET x1          == shape.x + stepOf(shape.vx, deltaTime)
      y1          == shape.y + stepOf(shape.vy, deltaTime)
      wobblePhase == shape.wobblePhase + phaseStepOf(shape.wobbleSpeed, deltaTime)
      wobbleX     == TDiv(sinPhase(wobblePhase) * shape.wobbleAmount, 1000)
      wobbleY     == TDiv(cosPhase((wobblePhase * 13) \div 10) * shape.wobbleAmount, 1000)
      bx          == bounce(x1, shape.vx, width)
      by          == bounce(y1, shape.vy, height)
      pulsePhase  == shape.pulsePhase + phaseStepOf(shape.pulseSpeed, deltaTime)
      moved == [shape EXCEPT !.x = bx[1], !.vx = bx[2], !.y = by[1], !.vy = by[2],
                             !.wobblePhase = wobblePhase,
                             !.rotation = @ + stepOf(shape.vRotation, deltaTime),
                             !.pulsePhase = pulsePhase,
                             !.wobbleX = wobbleX, !.wobbleY = wobbleY]
  IN  pulseSizes(moved, pulseFactorOf(pulsePhase))

updateAnimatedShapes(shapes, width, height, deltaTime) ==
  [k \in 1..Len(shapes) |-> updateShape(shapes[k], width, height, deltaTime)]

\* ------------------------------------------------------------------------
\* Inputs
\* ------------------------------------------------------------------------
Square == [name |-> "Square", width |-> 80000, height |-> 80000]
Wide   == [name |-> "Wide", width |-> 120000, height |-> 50000]

defaultControls ==
  [structure |-> 50, density |-> 60, scale |-> 50, chaos |-> 30, motion |-> 60,
   paletteVariation |-> 30, pathShape |-> "circle", animationMode |-> "full",
   flowAngle |-> 0]

Seeds == {0, 12345}

Config(preset, controls, palette, seed, text) ==
  [width |-> preset.width, height |-> preset.height, controls |-> controls,
   palette |-> palette, seed |-> seed, text |-> text]

\* free-form inputs: every density, loose and structured placement; both
\* seeds under both placements at the densities where a count changes
FreeVariants(d) ==
  IF d \in {0, 6, 7, 39, 40, 41, 42, 100}
  THEN {<<30, 10>>, <<70, 50>>} \X Seeds
  ELSE {<<<<30, 10>>, 0>>, <<<<70, 50>>, 12345>>}

FreeConfigs ==
  UNION { { Config(Square,
                   [defaultControls EXCEPT !.density = d, !.structure = v[1][1],
                                           !.chaos = v[1][2]],
                   Aurora, v[2], <<>>) : v \in FreeVariants(d) } : d \in 0..100 }
  \cup
  { Config(Wide, [defaultControls EXCEPT !.density = d], Mono, 7, <<" ", " ">>) :
      d \in {0, 39, 40, 100} }

\* text inputs: every path shape
TextConfigs ==
  { Config(Square,
           [defaultControls EXCEPT !.density = d, !.pathShape = ps,
                                   !.animationMode = m, !.flowAngle = 90],
           Aurora, sd, txt) :
      d \in {0, 60, 100}, ps \in {"circle", "semicircle", "triangle", "rectangle", "line"},
      m \in {"full", "drift"}, sd \in {12345},
      txt \in { <<"H", "I">>, <<" ", "a", "?", "0">> } }

\* ------------------------------------------------------------------------
\* Generation runs: generateComposition followed by addAnimationProperties,
\* twice on the same arguments, step by step through the phases
\* ------------------------------------------------------------------------
AnimIdle ==
  /\ shapesRef = <<>> /\ generated = <<>> /\ ticks = 0
  /\ hitX = <<>> /\ hitY = <<>> /\ prevHitX = <<>> /\ prevHitY = <<>>

CanvasIdle ==
  /\ isAnimating = FALSE /\ animate = <<>> /\ animationRef = 0 /\ lastTimeRef = 0
  /\ pending = {} /\ nextId = 1 /\ now = 0 /\ pausedFor = 0 /\ surface = <<>> /\ drawn = <<>>
  /\ events = <<>>

LibIdle == call = <<>> /\ result = <<>>

GenIdle ==
  /\ args = <<>> /\ pc = "idle" /\ rngT = <<0, 0>> /\ lcgS = 0 /\ built = <<>>
  /\ animated = <<>> /\ run = 0 /\ first = <<>>

GenInit ==
  /\ args \in FreeConfigs \cup TextConfigs
  /\ pc = "start"
  /\ rngT = <<0, 0>>
  /\ lcgS = 0
  /\ built = <<>>
  /\ animated = <<>>
  /\ run = 1
  /\ first = <<>>
  /\ AnimIdle
  /\ CanvasIdle
  /\ LibIdle

CountRole(shapes, role) == Cardinality({k \in 1..Len(shapes) : shapes[k].role = role})

\* generateComposition takes the text branch; generateTextComposition creates
\* its generator
EnterText ==
  /\ pc = "start"
  /\ isTextMode(args)
  /\ rngT' = createRandom(args.seed)
  /\ pc' = "text"
  /\ UNCHANGED <<args, lcgS, built, animated, run, first, animVars, canvasVars, libVars>>

\* one iteration of the loop of generateTextComposition
TextStep ==
  /\ pc = "text"
  /\ Len(built) < Len(textPoints(args))
  /\ \E r \in {textShapeAt(args, textPoints(args), Len(built), textSize(args),
                          textChaosOffset(args), rngT)} :
       built' = Append(built, r.shape) /\ rngT' = r.t
  /\ UNCHANGED <<args, pc, lcgS, animated, run, first, animVars, canvasVars, libVars>>

\* generateTextComposition returns (no points, or the loop is over)
TextReturn ==
  /\ pc = "text"
  /\ Len(built) >= Len(textPoints(args))
  /\ pc' = "animate"
  /\ UNCHANGED <<args, rngT, lcgS, built, animated, run, first, animVars, canvasVars, libVars>>

\* generateComposition takes the free-form branch and creates the generator
EnterFreeForm ==
  /\ pc = "start"
  /\ ~isTextMode(args)
  /\ rngT' = createRandom(args.seed)
  /\ pc' = "anchors"
  /\ UNCHANGED <<args, lcgS, built, animated, run, first, animVars, canvasVars, libVars>>

\* one iteration of the loop of generateAnchors
AnchorStep ==
  /\ pc = "anchors"
  /\ Len(built) < anchorCount(args.controls.density)
  /\ \E r \in {anchorAt(args.width, args.height, args.controls, args.palette, args.seed,
                       Len(built), anchorSize(args.width, args.height, args.controls),
                       anchorGrid(args.controls), rngT)} :
       built' = Append(built, r.shape) /\ rngT' = r.t
  /\ UNCHANGED <<args, pc, lcgS, animated, run, first, animVars, canvasVars, libVars>>

AnchorsReturn ==
  /\ pc = "anchors"
  /\ Len(built) >= anchorCount(args.controls.density)
  /\ pc' = "accents"
  /\ UNCHANGED <<args, rngT, lcgS, built, animated, run, first, animVars, canvasVars, libVars>>

\* one iteration of the loop of generateAccents; built holds the anchors and
\* the accents pushed so far
AccentStep ==
  /\ pc = "accents"
  /\ CountRole(built, "accent") < accentCount(args.controls.density)
  /\ \E r \in {accentAt(args.width, args.height, args.controls, args.palette,
                          SelectSeq(built, LAMBDA sh : sh.role = "anchor"),
                          args.seed, CountRole(built, "accent"),
                          accentSize(args.width, args.height, args.controls), rngT)} :
       built' = Append(built, r.shape) /\ rngT' = r.t
  /\ UNCHANGED <<args, pc, lcgS, animated, run, first, animVars, canvasVars, libVars>>

AccentsReturn ==
  /\ pc = "accents"
  /\ CountRole(built, "accent") >= accentCount(args.controls.density)
  /\ pc' = "texture"
  /\ UNCHANGED <<args, rngT, lcgS, built, animated, run, first, animVars, canvasVars, libVars>>

\* generateTexture returns at once: texture only appears at higher density
TextureSkip ==
  /\ pc = "texture"
  /\ args.controls.density < 40
  /\ pc' = "animate"
  /\ UNCHANGED <<args, rngT, lcgS, built, animated, run, first, animVars, canvasVars, libVars>>

\* one iteration of the loop of generateTexture
TextureStep ==
  /\ pc = "texture"
  /\ args.controls.density >= 40
  /\ CountRole(built, "texture") < textureCount(args.controls.density)
  /\ \E r \in {textureAt(args.width, args.height, args.controls, args.palette,
                        textureSize(args.width, args.height, args.controls), rngT)} :
       built' = Append(built, r.shape) /\ rngT' = r.t
  /\ UNCHANGED <<args, pc, lcgS, animated, run, first, animVars, canvasVars, libVars>>

TextureReturn ==
  /\ pc = "texture"
  /\ args.controls.density >= 40
  /\ CountRole(built, "texture") >= textureCount(args.controls.density)
  /\ pc' = "animate"
  /\ UNCHANGED <<args, rngT, lcgS, built, animated, run, first, animVars, canvasVars, libVars>>

\* addAnimationProperties is entered, called as the canvas calls it: let s = seed
EnterAnimation ==
  /\ pc = "animate"
  /\ lcgS' = args.seed
  /\ animated' = <<>>
  /\ pc' = "map"
  /\ UNCHANGED <<args, rngT, built, run, first, animVars, canvasVars, libVars>>

\* the callback of shapes.map for the next shape
AnimationStep ==
  /\ pc = "map"
  /\ Len(animated) < Len(built)
  /\ \E r \in {animateShape(built[Len(animated) + 1], Len(animated), lcgS,
                           args.controls.chaos, args.controls.motion,
                           ToBoolean(args.controls.animationMode))} :
       animated' = Append(animated, r.shape) /\ lcgS' = r.s
  /\ UNCHANGED <<args, pc, rngT, built, run, first, animVars, canvasVars, libVars>>

AnimationReturn ==
  /\ pc = "map"
  /\ Len(animated) >= Len(built)
  /\ pc' = "done"
  /\ UNCHANGED <<args, rngT, lcgS, built, animated, run, first, animVars, canvasVars, libVars>>

\* the second, independent invocation with identical arguments
Rerun ==
  /\ pc = "done"
  /\ run = 1
  /\ first' = animated
  /\ run' = 2
  /\ built' = <<>>
  /\ animated' = <<>>
  /\ pc' = "start"
  /\ UNCHANGED <<args, rngT, lcgS, animVars, canvasVars, libVars>>

GenNext ==
  \/ EnterText
  \/ TextStep
  \/ TextReturn
  \/ EnterFreeForm
  \/ AnchorStep
  \/ AnchorsReturn
  \/ AccentStep
  \/ AccentsReturn
  \/ TextureSkip
  \/ TextureStep
  \/ TextureReturn
  \/ EnterAnimation
  \/ AnimationStep
  \/ AnimationReturn
  \/ Rerun

SpecGen == GenInit /\ [][GenNext]_vars

\* ------------------------------------------------------------------------
\* The animation engine on generated collections: addAnimationProperties
\* called with or without its stationaryMode argument, then any number of
\* updateAnimatedShapes calls with any deltaTime
\* ------------------------------------------------------------------------
MaxTicks == 3

DeltaTimes == {0, 16, 60000}

Tiny == [name |-> "Tiny", width |-> 10000, height |-> 10000]

TickConfigs ==
  { Config(Square, [defaultControls EXCEPT !.density = 48, !.structure = 30,
                                           !.chaos = 60, !.scale = 0],
           Aurora, 0, <<>>),
    Config(Wide, [defaultControls EXCEPT !.density = 42, !.structure = 70,
                                         !.chaos = 100, !.motion = 100],
           Mono, 12345, <<>>),
    Config(Tiny, [defaultControls EXCEPT !.density = 45, !.chaos = 80],
           Aurora, 7, <<>>),
    Config(Square, [defaultControls EXCEPT !.pathShape = "triangle", !.chaos = 100,
                                           !.scale = 100],
           Aurora, 12345, <<"H", "I">>),
    Config(Wide, [defaultControls EXCEPT !.pathShape = "semicircle", !.density = 100,
                                         !.animationMode = "drift", !.flowAngle = 45],
           Mono, 1, <<"A", " ", "0">>),
    Config(Tiny, [defaultControls EXCEPT !.pathShape = "rectangle", !.chaos = 90],
           Mono, 3, <<"H">>) }

NoHits(n) == [k \in 1..n |-> "none"]

TickInit ==
  /\ args \in TickConfigs
  /\ \E mode \in {"", "stationary"}, newShapes \in {generateComposition(args)} :
       shapesRef = addAnimationProperties(newShapes, args.controls.chaos,
                                          args.controls.motion, args.seed, mode).shapes
  /\ generated = shapesRef
  /\ ticks = 0
  /\ hitX = NoHits(Len(shapesRef)) /\ hitY = NoHits(Len(shapesRef))
  /\ prevHitX = NoHits(Len(shapesRef)) /\ prevHitY = NoHits(Len(shapesRef))
  /\ pc = "idle" /\ rngT = <<0, 0>> /\ lcgS = 0 /\ built = <<>>
  /\ animated = <<>> /\ run = 0 /\ first = <<>>
  /\ CanvasIdle
  /\ LibIdle

\* the edge of the inset box past which a call carried a moving shape, as
\* the conditions of the bounce see it
edgeHit(pos, v, extent, deltaTime) ==
  IF v = 0 THEN "none"
  ELSE IF pos + stepOf(v, deltaTime) < padding THEN "low"
  ELSE IF pos + stepOf(v, deltaTime) > extent - padding THEN "high"
  ELSE "none"

\* what one call of updateAnimatedShapes does to the collection
Update(width, height, deltaTime) ==
  /\ shapesRef' = updateAnimatedShapes(shapesRef, width, height, deltaTime)
  /\ ticks' = ticks + 1
  /\ prevHitX' = hitX
  /\ prevHitY' = hitY
  /\ hitX' = [k \in 1..Len(shapesRef) |->
                edgeHit(shapesRef[k].x, shapesRef[k].vx, width, deltaTime)]
  /\ hitY' = [k \in 1..Len(shapesRef) |->
                edgeHit(shapesRef[k].y, shapesRef[k].vy, height, deltaTime)]

Tick ==
  /\ ticks < MaxTicks
  /\ \E deltaTime \in DeltaTimes : Update(args.width, args.height, deltaTime)
  /\ UNCHANGED <<generated, genVars, canvasVars, libVars>>

SpecTick == TickInit /\ [][Tick]_vars

\* ------------------------------------------------------------------------
\* The Canvas component: mount, click, change of props, frame callback.
\* A click and a change of a control are discrete events, so the handler, the
\* render, the cleanups of the effects whose dependencies changed and the
\* bodies of those effects run as one step.
\* ------------------------------------------------------------------------
MaxEvents == 4

FrameGaps == {16, 2000}

\* how long after the last step a click comes
ClickGaps == {0, 5000}

CanvasProps ==
  { Config(Square, [defaultControls EXCEPT !.density = 42], Aurora, 0, <<>>),
    Config(Square, [defaultControls EXCEPT !.density = 42], Aurora, 12345, <<>>),
    Config(Square, [defaultControls EXCEPT !.density = 42, !.motion = 100],
           Aurora, 0, <<>>),
    Config(Wide, [defaultControls EXCEPT !.pathShape = "rectangle"], Mono, 0,
           <<"H", "I">>) }

\* the function useCallback returns, as the values its body closes over
animateOf(props, playing) ==
  [isAnimating |-> playing, background |-> props.palette.background,
   motion |-> props.controls.motion]

\* ctx.fillRect over the whole canvas with the given colour and globalAlpha
\* (in thousandths); an opaque fill leaves nothing of the frames before it
fillRect(s, colour, alpha) ==
  [s EXCEPT !.fills = @ + 1, !.background = colour, !.alpha = alpha,
            !.layers = IF alpha = 1000 THEN 0 ELSE @]

\* 0.15 + (1 - controls.motion / 100) * 0.3, in thousandths
trailAlpha(motion) == 150 + (100 - motion) * 3

cancelNothing(requests, id) == requests

cancelAnimationFrame(requests, id) == {r \in requests : r.id # id}

\* shapes.filter((s) => s.role === role), as the indices of the shapes kept
RECURSIVE filterRole(_, _, _)
filterRole(shapes, role, from) ==
  IF from > Len(shapes) THEN <<>>
  ELSE (IF shapes[from].role = role THEN <<from>> ELSE <<>>)
         \o filterRole(shapes, role, from + 1)

renderAsGenerated(shapes) == [k \in 1..Len(shapes) |-> k]

\* the calls of renderAnimatedShape of one frame, as indices into the collection
renderByLayer(shapes) ==
  filterRole(shapes, "texture", 1) \o filterRole(shapes, "accent", 1)
    \o filterRole(shapes, "anchor", 1)

\* a collection handed over before its first shape is in place
regenerateUnfinished(props) ==
  Tail(addAnimationProperties(generateComposition(props), props.controls.chaos,
                              props.controls.motion, props.seed,
                              props.controls.animationMode).shapes)

\* the body of the regeneration effect: the new collection
regenerate(props) ==
  addAnimationProperties(generateComposition(props), props.controls.chaos,
                         props.controls.motion, props.seed,
                         props.controls.animationMode).shapes

\* the state after the first render and its effects
CanvasInit ==
  /\ args \in CanvasProps
  /\ \E newShapes \in {regenerate(args)} :
       /\ shapesRef = newShapes
       /\ generated = newShapes
       /\ hitX = NoHits(Len(newShapes)) /\ hitY = NoHits(Len(newShapes))
       /\ prevHitX = NoHits(Len(newShapes)) /\ prevHitY = NoHits(Len(newShapes))
  /\ ticks = 0
  /\ isAnimating = TRUE
  /\ animate = animateOf(args, TRUE)
  /\ animationRef = 1
  /\ lastTimeRef = 0
  /\ pending = {[id |-> 1, callback |-> animateOf(args, TRUE)]}
  /\ nextId = 2
  /\ now = 0
  /\ pausedFor = 0
  /\ surface = [fills |-> 2, renders |-> 0, background |-> args.palette.background,
                alpha |-> 1000, layers |-> 0]
  /\ drawn = <<>>
  /\ events = <<>>
  /\ pc = "idle" /\ rngT = <<0, 0>> /\ lcgS = 0 /\ built = <<>>
  /\ animated = <<>> /\ run = 0 /\ first = <<>>
  /\ LibIdle

\* the start/stop effect without the cleanup it returns
StartStopWithoutCleanup(props, playing, cleared) ==
  IF playing
  THEN /\ surface' = fillRect(cleared, props.palette.background, cleared.alpha)
       /\ animationRef' = nextId
       /\ pending' = pending \cup {[id |-> nextId,
                                       callback |-> animateOf(props, playing)]}
       /\ nextId' = nextId + 1
  ELSE /\ surface' = cleared
       /\ UNCHANGED <<animationRef, pending, nextId>>

\* the cleanup and the body of the start/stop effect, run when animate changed
StartStop(props, playing, cleared) ==
  LET kept == IF animationRef # 0 THEN cancelAnimationFrame(pending, animationRef)
              ELSE pending
  IN  IF playing
      THEN /\ surface' = fillRect(cleared, props.palette.background, cleared.alpha)
           /\ animationRef' = nextId
           /\ pending' = kept \cup {[id |-> nextId,
                                        callback |-> animateOf(props, playing)]}
           /\ nextId' = nextId + 1
      ELSE /\ surface' = cleared
           /\ pending' = kept
           /\ UNCHANGED <<animationRef, nextId>>

\* onClick: setIsAnimating(!isAnimating), the render and the start/stop effect
Click ==
  /\ Len(events) < MaxEvents
  /\ \E wait \in ClickGaps :
       /\ now' = now + wait
       /\ pausedFor' = IF isAnimating THEN pausedFor ELSE pausedFor + wait
  /\ isAnimating' = ~isAnimating
  /\ animate' = animateOf(args, ~isAnimating)
  /\ StartStop(args, ~isAnimating, surface)
  /\ events' = Append(events, "click")
  /\ UNCHANGED <<args, animVars, lastTimeRef, drawn,
                 pc, rngT, lcgS, built, animated, run, first, libVars>>

\* the parent passes other controls, palette, seed, preset or text: the
\* render, the regeneration effect and, when animate changed, the start/stop
\* effect (its cleanup before the bodies of both effects)
ChangeProps ==
  /\ Len(events) < MaxEvents
  /\ \E props \in CanvasProps \ {args} :
       /\ args' = props
       /\ \E newShapes \in {regenerate(props)} :
            /\ shapesRef' = newShapes
            /\ generated' = newShapes
            /\ hitX' = NoHits(Len(newShapes)) /\ hitY' = NoHits(Len(newShapes))
            /\ prevHitX' = NoHits(Len(newShapes))
            /\ prevHitY' = NoHits(Len(newShapes))
       /\ animate' = animateOf(props, isAnimating)
       /\ LET cleared == fillRect(surface, props.palette.background, 1000)
          IN  IF animateOf(props, isAnimating) # animate
              THEN StartStop(props, isAnimating, cleared)
              ELSE /\ surface' = cleared
                   /\ UNCHANGED <<animationRef, pending, nextId>>
  /\ events' = Append(events, "props")
  /\ UNCHANGED <<ticks, isAnimating, lastTimeRef, now, pausedFor, drawn,
                 pc, rngT, lcgS, built, animated, run, first, libVars>>

\* the browser runs a requested callback, gap milliseconds after the last step
Frame ==
  /\ Len(events) < MaxEvents
  /\ \E request \in pending, gap \in FrameGaps :
       LET time      == now + gap
           deltaTime == IF lastTimeRef # 0 THEN time - lastTimeRef ELSE 16
           closure   == request.callback
           faded     == fillRect(surface, closure.background,
                                 trailAlpha(closure.motion))
       IN  /\ now' = time
           /\ lastTimeRef' = time
           /\ pausedFor' = 0
           /\ Update(args.width, args.height, deltaTime)
           /\ drawn' = renderByLayer(shapesRef')
           /\ surface' = [faded EXCEPT !.alpha = 1000, !.layers = @ + 1,
                                       !.renders = @ + Len(drawn')]
           /\ IF closure.isAnimating
              THEN /\ animationRef' = nextId
                   /\ pending' = (pending \ {request})
                                    \cup {[id |-> nextId, callback |-> closure]}
                   /\ nextId' = nextId + 1
              ELSE /\ pending' = pending \ {request}
                   /\ UNCHANGED <<animationRef, nextId>>
  /\ events' = Append(events, "frame")
  /\ UNCHANGED <<args, generated, isAnimating, animate,
                 pc, rngT, lcgS, built, animated, run, first, libVars>>

CanvasNext == Click \/ ChangeProps \/ Frame

SpecCanvas == CanvasInit /\ [][CanvasNext]_vars

\* ------------------------------------------------------------------------
\* The library functions called on their own: getTextPathPoints and varyColor
\* with arguments of the caller's choice, and the methods of one RandomUtils
\* object called in any order
\* ------------------------------------------------------------------------
MaxCalls == 3

Presets == {Square, Wide, Tiny, [name |-> "Tall", width |-> 30000, height |-> 77700]}

Texts ==
  { <<>>, <<" ">>, <<" ", "\t", " ">>, <<"I">>, <<"H", "I">>, <<"h", "i">>, <<"?">>,
    <<"H", "?", "I">>, <<"ß">>, <<"A", " ", "0">>,
    <<"H", "A", "I", "0", "S", "A", "H", "I">> }

TextCalls ==
  { [fn |-> "getTextPathPoints", text |-> text, canvasWidth |-> preset.width,
     canvasHeight |-> preset.height, density |-> density] :
      text \in Texts, preset \in Presets, density \in 0..100 }

BaseColors ==
  { <<"0", "0", "0", "0", "0", "0">>, <<"f", "f", "f", "f", "f", "f">>,
    <<"F", "F", "A", "a", "0", "1">>, Aurora.anchor[1], Aurora.accent[2],
    Mono.anchor[3] }

\* the seeds around zero and around a multiple of the modulus, and seeds as
\* the generators pass them: seed + i, seed + i + 100
ColorSeeds ==
  (-12..12) \cup (-233285..-233275) \cup {-1000000, -12345, 12345, 12445, 999999, 1000099}

ColorCalls ==
  { [fn |-> "varyColor", baseColor |-> baseColor, variation |-> variation,
     seed |-> seed] :
      baseColor \in BaseColors, variation \in 0..100, seed \in ColorSeeds }

UtilsCalls == { [fn |-> "createRandomUtils", seed |-> seed] : seed \in {0, 12345, 999999} }

\* the call is made; for createRandomUtils, the object has been returned
LibInit ==
  /\ call \in TextCalls \cup ColorCalls \cup UtilsCalls
  /\ result = <<>>
  /\ pc = "called"
  /\ rngT = (IF call.fn = "createRandomUtils" THEN createRandom(call.seed) ELSE <<0, 0>>)
  /\ args = <<>> /\ lcgS = 0 /\ built = <<>> /\ animated = <<>> /\ run = 0
  /\ first = <<>>
  /\ AnimIdle
  /\ CanvasIdle

GetTextPathPoints ==
  /\ pc = "called"
  /\ call.fn = "getTextPathPoints"
  /\ result' = getTextPathPoints(call.text, call.canvasWidth, call.canvasHeight,
                                  call.density)
  /\ pc' = "returned"
  /\ UNCHANGED <<call, args, rngT, lcgS, built, animated, run, first, animVars,
                 canvasVars>>

VaryColor ==
  /\ pc = "called"
  /\ call.fn = "varyColor"
  /\ result' = varyColor(call.baseColor, call.variation, call.seed)
  /\ pc' = "returned"
  /\ UNCHANGED <<call, args, rngT, lcgS, built, animated, run, first, animVars,
                 canvasVars>>

\* a method of the RandomUtils object is called with arguments a and returns
UtilsMethod(op, a) ==
  /\ call.fn = "createRandomUtils"
  /\ Len(result) < MaxCalls
  /\ \E r \in { CASE op = "range" -> utilsRange(rngT, a[1], a[2])
                  [] op = "int" -> utilsInt(rngT, a[1], a[2])
                  [] op = "pick" -> utilsPick(rngT, a)
                  [] op = "chance" -> utilsChance(rngT, a[1])
                  [] op = "gaussian" -> utilsGaussian(rngT) } :
       /\ result' = Append(result, [op |-> op, args |-> a, value |-> r.value])
       /\ rngT' = r.t
  /\ UNCHANGED <<call, args, pc, lcgS, built, animated, run, first, animVars,
                 canvasVars>>

Range == \E a \in {<<0, 10000>>, <<-3000, 3000>>} : UtilsMethod("range", a)

IntCall == \E a \in {<<0, 3>>, <<1, 6>>} : UtilsMethod("int", a)

Pick == UtilsMethod("pick", <<"circle", "rectangle", "line">>)

Chance == \E a \in {<<50>>, <<70>>} : UtilsMethod("chance", a)

Gaussian == UtilsMethod("gaussian", <<>>)

LibNext ==
  \/ GetTextPathPoints
  \/ VaryColor
  \/ Range
  \/ IntCall
  \/ Pick
  \/ Chance
  \/ Gaussian

SpecLib == LibInit /\ [][LibNext]_vars

\* ------------------------------------------------------------------------
\* Properties of the generation runs
\* ------------------------------------------------------------------------
Roles(shapes) == {shapes[k].role : k \in 1..Len(shapes)}

\* generateComposition has returned (the shapes are in built)
Generated == pc \in {"animate", "map", "done"}

\* C1. Determinism: two independent runs of generateComposition followed by
\* addAnimationProperties with identical arguments return collections that
\* are identical in length, in order and in every field of every shape.
Determinism == (pc = "done" /\ run = 2) => animated = first

DeterminismWitness ==
  /\ pc = "done" /\ run = 2
  /\ ~isTextMode(args)
  /\ Roles(first) = {"anchor", "accent", "texture"}
  /\ Len(animated) >= 10

RolesAsClaimed ==
  (Generated /\ ~isTextMode(args)) =>
    IF args.controls.density >= 40
    THEN Roles(built) = {"anchor", "accent", "texture"}
    ELSE Roles(built) = {"anchor", "accent"}

\* C3 as amended. Free-form mode produces all three roles whenever
\* density >= 42, exactly the roles anchor and accent whenever
\* 7 <= density < 42, and anchors only whenever density < 7.
RolesByDensity ==
  (Generated /\ ~isTextMode(args)) =>
    IF args.controls.density >= 42
    THEN Roles(built) = {"anchor", "accent", "texture"}
    ELSE IF args.controls.density >= 7
    THEN Roles(built) = {"anchor", "accent"}
    ELSE Roles(built) = {"anchor"}

RolesWitness ==
  /\ pc = "done" /\ ~isTextMode(args)
  /\ args.controls.density = 41
  /\ Roles(built) = {"anchor", "accent"}

\* C4. Text-mode role invariant: every shape that generateComposition returns
\* for a text that is non-empty after trimming has role "anchor".
TextRolesAnchor ==
  isTextMode(args) =>
    /\ \A k \in 1..Len(built) : built[k].role = "anchor"
    /\ \A k \in 1..Len(animated) : animated[k].role = "anchor"

TextRolesWitness ==
  /\ pc = "done" /\ isTextMode(args)
  /\ args.controls.pathShape = "line"
  /\ Len(built) >= 5
  /\ Len(animated) = Len(built)

\* C12. generateComposition runs exactly one of two modes, chosen by the text
\* alone: the text loop is entered only with a text that is non-empty after
\* trimming and then the result is the text composition; the free-form phases
\* are entered only with a text that is absent, empty or made of whitespace
\* and then the result is anchors, accents and texture of the free-form
\* generators; the result is never a mixture of the two.
ExactlyOneMode ==
  /\ (pc = "text" => trim(args.text) # <<>>)
  /\ (pc \in {"anchors", "accents", "texture"} => trim(args.text) = <<>>)
  /\ (pc = "animate" =>
        IF trim(args.text) # <<>>
        THEN built = generateTextComposition(args, createRandom(args.seed)).shapes
        ELSE built = compositionOfAnchors(args,
                       generateAnchors(args.width, args.height, args.controls,
                                       args.palette, createRandom(args.seed),
                                       args.seed)))

\* a whitespace-only text has given a free-form composition with all three
\* roles
ExactlyOneModeWitness ==
  /\ pc = "animate"
  /\ args.text = <<" ", " ">>
  /\ Roles(built) = {"anchor", "accent", "texture"}

\* ------------------------------------------------------------------------
\* Properties of updateAnimatedShapes
\* ------------------------------------------------------------------------
InsetBox(pos, extent) == padding <= pos /\ pos <= extent - padding

\* C5. Boundary containment: on a canvas at least 100 wide and 100 high,
\* after every call of updateAnimatedShapes each shape's stored position
\* satisfies 50 <= x <= width - 50 and 50 <= y <= height - 50, whatever the
\* velocity, the deltaTime and the starting position.
BoundaryContainment ==
  (ticks >= 1 /\ args.width >= 2 * padding /\ args.height >= 2 * padding) =>
    \A k \in 1..Len(shapesRef) :
      InsetBox(shapesRef[k].x, args.width) /\ InsetBox(shapesRef[k].y, args.height)

\* a shape generated outside the inset box, with a velocity, has been carried
\* past an edge by a call and another call has followed
BoundaryContainmentWitness ==
  /\ ticks >= 2
  /\ \E k \in 1..Len(shapesRef) :
       /\ ~InsetBox(generated[k].x, args.width)
       /\ generated[k].vx # 0
       /\ prevHitX[k] # "none"

\* C6. A velocity component is negated once per boundary contact: after a
\* call has negated it at an edge, the following call does not negate it
\* again at that same edge, the shape not having been inside in between.
\* This is the statement of the claim; the code violates it for shapes that
\* start outside the inset box and move towards it.
FlipsOncePerContact ==
  \A k \in 1..Len(shapesRef) :
    /\ (hitX[k] # "none" => prevHitX[k] # hitX[k])
    /\ (hitY[k] # "none" => prevHitY[k] # hitY[k])

\* the pulsed value of one size field against its baseline, up to the unit
\* of the fixed-point representation
PulseBounded(size, original) ==
  /\ size * 10000 > original * 8500 - 10000
  /\ size * 10000 <= original * 11500

Baselines == {"originalRadius", "originalWidth", "originalHeight", "originalSize"}

\* C7. Pulse boundedness: for every shape with a pulse baseline, after any
\* number of calls each pulsed size field lies within [0.85, 1.15] times its
\* baseline, and no call modifies a baseline field.
PulseBoundedness ==
  \A k \in 1..Len(shapesRef) :
    LET shape == shapesRef[k]
    IN  /\ \A f \in Baselines : shape[f] = generated[k][f]
        /\ (shape.type \in {"circle", "semicircle"} /\ Truthy(shape.originalRadius))
              => PulseBounded(shape.radius, shape.originalRadius)
        /\ (shape.type = "rectangle" /\ Truthy(shape.originalWidth)
               /\ Truthy(shape.originalHeight))
              => /\ PulseBounded(shape.width, shape.originalWidth)
                 /\ PulseBounded(shape.height, shape.originalHeight)
        /\ (shape.type = "triangle" /\ Truthy(shape.originalSize))
              => PulseBounded(shape.size, shape.originalSize)

\* after three calls a circle and a rectangle are away from their baselines
PulseBoundednessWitness ==
  /\ ticks >= 3
  /\ \E k \in 1..Len(shapesRef) :
       /\ shapesRef[k].type = "circle"
       /\ shapesRef[k].radius > shapesRef[k].originalRadius
  /\ \E k \in 1..Len(shapesRef) :
       /\ shapesRef[k].type = "rectangle"
       /\ shapesRef[k].width < shapesRef[k].originalWidth

\* ------------------------------------------------------------------------
\* Properties of the Canvas component
\* ------------------------------------------------------------------------
Last(seq) == seq[Len(seq)]

\* C8. The animation has two states, Playing (initial) and Paused, and only a
\* click toggles between them; while Paused no call of updateAnimatedShapes
\* happens and no shape of the collection changes in any field (a change of
\* props replaces the collection by a newly generated one), under every
\* interleaving of clicks, frame callbacks and changes of props.
PausedFreezes ==
  [][ /\ isAnimating \in BOOLEAN
      /\ (events = <<>> => isAnimating)
      /\ (isAnimating' # isAnimating => Last(events') = "click")
      /\ (~isAnimating => ticks' = ticks)
      /\ ((~isAnimating /\ args' = args) => shapesRef' = shapesRef) ]_vars

\* Paused after frames have moved the shapes, and a change of props and a
\* further event have happened since the pause
PausedFreezesWitness ==
  /\ ~isAnimating
  /\ Len(events) >= 4
  /\ events[1] = "frame" /\ events[2] = "click"
  /\ \E k \in 3..Len(events) : events[k] = "props"

\* C9. While Paused the last-rendered frame stays static: no event that
\* leaves the state Paused draws to or clears the canvas.  This is the
\* statement of the claim; the regeneration effect violates it.
StaticWhilePaused ==
  [][ (~isAnimating /\ ~isAnimating') => surface' = surface ]_vars

\* C10. In every rendered frame each shape of the current collection is
\* drawn exactly once, all texture shapes before all accent shapes and all
\* accent shapes before all anchor shapes.
layerOf(role) == IF role = "texture" THEN 1 ELSE IF role = "accent" THEN 2 ELSE 3

RenderOrder ==
  (events # <<>> /\ Last(events) = "frame") =>
    /\ Len(drawn) = Len(shapesRef)
    /\ \A k \in 1..Len(shapesRef) : \E j \in 1..Len(drawn) : drawn[j] = k
    /\ \A i, j \in 1..Len(drawn) :
         i < j => layerOf(shapesRef[drawn[i]].role) <= layerOf(shapesRef[drawn[j]].role)

\* a frame has drawn a collection that holds the three roles, generated in
\* the order anchor, accent, texture
RenderOrderWitness ==
  /\ events # <<>> /\ Last(events) = "frame"
  /\ Roles(shapesRef) = {"anchor", "accent", "texture"}
  /\ shapesRef[1].role = "anchor"
  /\ Len(drawn) >= 3

\* the fields of an animated shape that no call of updateAnimatedShapes writes
sameShape(a, b) ==
  /\ a.type = b.type /\ a.role = b.role /\ a.fill = b.fill /\ a.stroke = b.stroke
  /\ a.vRotation = b.vRotation /\ a.pulseSpeed = b.pulseSpeed
  /\ a.wobbleSpeed = b.wobbleSpeed /\ a.wobbleAmount = b.wobbleAmount
  /\ a.originalRadius = b.originalRadius /\ a.originalWidth = b.originalWidth
  /\ a.originalHeight = b.originalHeight /\ a.originalSize = b.originalSize

sameShapes(a, b) ==
  /\ Len(a) = Len(b)
  /\ \A k \in 1..Len(a) : sameShape(a[k], b[k])

\* the collection that generateComposition and addAnimationProperties build
\* from each of the inputs the canvas is given
collectionOf ==
  [props \in CanvasProps |->
     CHOOSE shapes \in
       {addAnimationProperties(CHOOSE base \in {generateComposition(props)} : TRUE,
                               props.controls.chaos, props.controls.motion,
                               props.seed, props.controls.animationMode).shapes} :
       TRUE]

\* C11. Regeneration is atomic: a step that changes controls, palette, seed,
\* canvas size or text leaves in shapesRef.current exactly the complete
\* collection built from the new inputs, and every other step (a frame, a
\* click) leaves the collection made of the same shapes, so that no frame
\* sees a partially built collection or one mixing old and new inputs.
RegenerationAtomic ==
  [][ IF args' # args
      THEN shapesRef' = collectionOf[args']
      ELSE sameShapes(shapesRef', shapesRef) ]_vars

\* a frame has run on a collection regenerated after frames had moved the
\* one before it
RegenerationAtomicWitness ==
  /\ Len(events) >= 3
  /\ events[1] = "frame"
  /\ \E i \in 2..(Len(events) - 1) : events[i] = "props" /\ events[i + 1] = "frame"
  /\ shapesRef # generated

\* ------------------------------------------------------------------------
\* Properties of getTextPathPoints
\* ------------------------------------------------------------------------
TextReturned == pc = "returned" /\ call.fn = "getTextPathPoints"

\* the stored outline of a character, empty for a character without one
storedOf(char) == IF char \in DOMAIN fontPaths THEN fontPaths[char] ELSE <<>>

\* how many of len stored points a stride keeps: indices 0, stride, 2 * stride ...
kept(len, stride) == (len + stride - 1) \div stride

RECURSIVE keptOf(_, _)
keptOf(chars, stride) ==
  IF chars = <<>> THEN 0
  ELSE kept(Len(storedOf(Head(chars))), stride) + keptOf(Tail(chars), stride)

\* each entry of the bounds lies one width and one tenth of a width to the
\* right of the entry before it
OwnSlots(bounds) ==
  \A i \in 1..(Len(bounds) - 1) :
    bounds[i + 1].x = bounds[i].x + bounds[i].width + bounds[i].width \div 10

\* C13. For empty or whitespace-only text getTextPathPoints returns the
\* empty result, both lists empty.  This is the statement of the claim; the
\* function only tests the length of the upper-cased text, so a text of
\* blanks is laid out and gets its letterBounds.
EmptyForBlankText ==
  (TextReturned /\ trim(call.text) = <<>>) =>
    result = [points |-> <<>>, letterBounds |-> <<>>]

\* C14 as stated: with a character absent from the glyph table in the text,
\* no points for each such character and as many letterBounds as the text has
\* characters, each at its own slot.
UnknownCharsAsClaimed ==
  (TextReturned /\ \E i \in 1..Len(call.text) : call.text[i] \notin DOMAIN fontPaths) =>
    /\ Len(result.letterBounds) = Len(call.text)
    /\ Len(result.points) = keptOf(call.text, sampleRate(call.density))
    /\ OwnSlots(result.letterBounds)

\* C14. Unknown characters: the text is upper-cased first; with a character
\* absent from the glyph table in the upper-cased text, the call returns,
\* emits no points for each such character (the points are those of the
\* other characters) and records one letterBounds entry per character of the
\* upper-cased text, each at its own horizontal slot.
UnknownCharsReserveSlots ==
  (TextReturned /\ \E i \in 1..Len(toUpperCase(call.text)) :
                      toUpperCase(call.text)[i] \notin DOMAIN fontPaths) =>
    /\ Len(result.letterBounds) = Len(toUpperCase(call.text))
    /\ Len(result.points) = keptOf(toUpperCase(call.text), sampleRate(call.density))
    /\ OwnSlots(result.letterBounds)

\* an unknown character between two letters: three slots, the points of the
\* two letters
UnknownCharsWitness ==
  /\ TextReturned
  /\ call.text = <<"H", "?", "I">>
  /\ call.density = 100
  /\ Len(result.letterBounds) = 3
  /\ Len(result.points) = 10

\* C15. Text layout: for a non-empty text the letterBounds are ordered left
\* to right with strictly increasing x, do not overlap, all have the width
\* min(canvasWidth * 0.84 / len, canvasHeight * 0.6), len being the number of
\* characters laid out, and the run is centred: the left and the right
\* margin are equal, to the unit of the fixed point.
TextLayout ==
  (TextReturned /\ call.text # <<>>) =>
    LET bounds == result.letterBounds
        len    == Len(bounds)
        width  == IF (call.canvasWidth * 84) \div (100 * len) < (call.canvasHeight * 6) \div 10
                  THEN (call.canvasWidth * 84) \div (100 * len)
                  ELSE (call.canvasHeight * 6) \div 10
        left   == bounds[1].x
        right  == call.canvasWidth - (bounds[len].x + bounds[len].width)
    IN  /\ len >= Len(call.text)
        /\ \A i \in 1..len : bounds[i].width = width
        /\ \A i \in 1..(len - 1) :
             /\ bounds[i + 1].x > bounds[i].x
             /\ bounds[i + 1].x >= bounds[i].x + bounds[i].width
        /\ left > 0
        /\ right - left \in {0, 1}

\* "HI" on the 800 x 800 canvas: two cells of width 336, and eight letters on
\* the wide canvas are the other branch of the minimum
TextLayoutWitness ==
  /\ TextReturned
  /\ call.text = <<"H", "I">>
  /\ call.canvasWidth = 80000 /\ call.canvasHeight = 80000
  /\ result.letterBounds[1].width = 33600
  /\ result.letterBounds[2].x > result.letterBounds[1].x + 33600

\* C16. Density sampling: the stride is max(1, floor((100 - density) / 15) + 1);
\* per letter the points emitted are exactly the stored points of indices 0,
\* stride, 2 * stride, ... in stored order, placed in the letter's cell;
\* density 100 gives stride 1 and every stored point; a lower density never
\* gives more points for the same text.
DensitySampling ==
  TextReturned =>
    LET upper  == toUpperCase(call.text)
        bounds == result.letterBounds
        stride == IF (100 - call.density) \div 15 + 1 < 1 THEN 1
                  ELSE (100 - call.density) \div 15 + 1
        letterHeight == (bounds[1].width * 12) \div 10
        startY == (call.canvasHeight - letterHeight) \div 2
        placed(i, m) ==
          [x |-> bounds[i].x
                   + (storedOf(upper[i])[(m - 1) * stride + 1][1] * bounds[i].width)
                       \div 10000,
           y |-> startY
                   + (storedOf(upper[i])[(m - 1) * stride + 1][2] * letterHeight)
                       \div 10000]
    IN  /\ result.points =
             Flatten([i \in 1..Len(upper) |->
                        [m \in 1..kept(Len(storedOf(upper[i])), stride) |-> placed(i, m)]])
        /\ (call.density = 100 => Len(result.points) = keptOf(upper, 1))
        /\ \A lower \in 0..call.density :
             Len(getTextPathPoints(call.text, call.canvasWidth, call.canvasHeight,
                                   lower).points) <= Len(result.points)

\* density 40 keeps every fifth stored point: two of the seven of H, one of
\* the three of I
DensitySamplingWitness ==
  /\ TextReturned
  /\ call.text = <<"H", "I">>
  /\ call.density = 40
  /\ Len(result.points) = 3
  /\ Len(result.points) < keptOf(<<"H", "I">>, 1)

\* ------------------------------------------------------------------------
\* Properties of varyColor
\* ------------------------------------------------------------------------
ColorReturned == pc = "returned" /\ call.fn = "varyColor"

HexChars == {"0", "1", "2", "3", "4", "5", "6", "7", "8", "9",
             "a", "b", "c", "d", "e", "f", "A", "B", "C", "D", "E", "F"}

\* C17. varyColor returns a valid colour string: after '#', exactly six
\* hexadecimal digits, that is three channels in 0..255, for every base
\* colour of six hexadecimal digits, every variation in 0..100 and every
\* integer seed, zero and negative seeds included.
ValidColor ==
  ColorReturned =>
    /\ Len(result) = 6
    /\ \A k \in 1..Len(result) : result[k] \in HexChars

\* a negative seed at full variation has darkened white
ValidColorWitness ==
  /\ ColorReturned
  /\ call.seed < 0
  /\ call.variation = 100
  /\ call.baseColor = <<"f", "f", "f", "f", "f", "f">>
  /\ result[1] \notin {"f", "e", "d", "c", "b"}

\* C18 as stated: with variation 0 the string returned is the base colour,
\* whatever the seed.
ZeroVariationIdentity ==
  (ColorReturned /\ call.variation = 0) => result = call.baseColor

\* the string with its hexadecimal digits in lower case
lowerCased(color) == [k \in 1..Len(color) |-> HexDigits[hexValue(color[k]) + 1]]

\* C18. With variation 0 varyColor returns, whatever the seed, the base
\* colour with its digits in lower case: the same colour, and the same
\* string when the base colour is written in lower case.
ZeroVariationSameColor ==
  (ColorReturned /\ call.variation = 0) =>
    /\ result = lowerCased(call.baseColor)
    /\ (call.baseColor = lowerCased(call.baseColor) => result = call.baseColor)

\* a seed whose hash is far from one half, and one of negative hash, have
\* left a palette colour as it was
ZeroVariationWitness ==
  /\ ColorReturned
  /\ call.variation = 0
  /\ call.seed = -12345
  /\ call.baseColor = Aurora.anchor[1]
  /\ result = Aurora.anchor[1]

\* C19. The hash of the seed lies in [0, 1), the adjustment has magnitude at
\* most 0.3 * variation / 100 and every channel returned differs from its
\* base channel by at most that share of the channel (and the rounding), for
\* every integer seed, negative seeds included.  This is the statement of
\* the claim; the remainder of a negative dividend is negative, so a seed
\* below -5 gives a hash in (-1, 0) and an adjustment down to -0.9.
HashInUnitInterval ==
  ColorReturned =>
    /\ LcgStep(call.seed) \in 0..233279
    /\ varyAdjust(call.variation, call.seed) \in
         (-300 * call.variation)..(300 * call.variation)
    /\ \A a \in {1, 3, 5} :
         LET base == parseHex2(call.baseColor, a)
             new  == parseHex2(result, a)
         IN  /\ (new - base) * 1000 <= 3 * call.variation * base + 1000
             /\ (base - new) * 1000 <= 3 * call.variation * base + 1000

\* ------------------------------------------------------------------------
\* Properties of the RandomUtils object
\* ------------------------------------------------------------------------
\* the draws that the calls recorded in calls account for: two for gaussian,
\* one for every other method
RECURSIVE drawsOf(_)
drawsOf(calls) ==
  IF calls = <<>> THEN 0
  ELSE (IF Head(calls).op = "gaussian" THEN 2 ELSE 1) + drawsOf(Tail(calls))

\* the value a method returns when its draws are the samples of D from
\* position at + 1 on
valueFrom(entry, D, at) ==
  CASE entry.op = "range" -> range(OutOf(D[at + 1]), entry.args[1], entry.args[2])
    [] entry.op = "int" -> int(OutOf(D[at + 1]), entry.args[1], entry.args[2])
    [] entry.op = "pick" -> pick(OutOf(D[at + 1]), entry.args)
    [] entry.op = "chance" -> chance(OutOf(D[at + 1]), entry.args[1])
    [] entry.op = "gaussian" -> gaussian(OutOf(D[at + 1]), OutOf(D[at + 2]))

\* the calls made so far have consumed the stream D in call order
consumedInOrder(calls, t, D) ==
  /\ Len(D) = drawsOf(calls)
  /\ (calls # <<>> => t = D[Len(D)])
  /\ \A k \in 1..Len(calls) :
       calls[k].value = valueFrom(calls[k], D, drawsOf(SubSeq(calls, 1, k - 1)))

\* C20. RNG stream consumption: the methods of one RandomUtils object draw
\* from the one stream of its createRandom closure in call order; range, int,
\* pick and chance consume one draw each and gaussian two, never more, so
\* that every value returned is determined by the seed and the calls made
\* before it.
StreamConsumption ==
  call.fn = "createRandomUtils" =>
    /\ (result = <<>> => rngT = createRandom(call.seed))
    /\ \E D \in {Draws(createRandom(call.seed), <<>>, drawsOf(result))} :
         consumedInOrder(result, rngT, D)

\* a gaussian whose first sample is below one half, then two other methods
StreamConsumptionWitness ==
  /\ call.fn = "createRandomUtils"
  /\ Len(result) = 3
  /\ result[1].op = "gaussian" /\ result[2].op = "int" /\ result[3].op = "chance"
  /\ U16(OutOf(NextT(createRandom(call.seed)))) < 32768

\* ------------------------------------------------------------------------
\* Properties of addAnimationProperties
\* ------------------------------------------------------------------------
\* C21. addAnimationProperties, as the canvas invokes it with
\* controls.animationMode, zeroes vx and vy of every shape exactly when the
\* mode is "stationary"; in the modes "full", "drift" and "pulse" every shape
\* has the velocities of velocity scale 1.  This is the statement of the
\* claim; the mode is passed as stationaryMode, where every mode name is a
\* non-empty string and so true.
StationaryOnlyWhenAsked ==
  pc = "done" =>
    IF args.controls.animationMode = "stationary"
    THEN \A k \in 1..Len(animated) : animated[k].vx = 0 /\ animated[k].vy = 0
    ELSE \E moving \in {addAnimationProperties(built, args.controls.chaos,
                                               args.controls.motion, args.seed,
                                               "").shapes} :
           \A k \in 1..Len(animated) :
             animated[k].vx = moving[k].vx /\ animated[k].vy = moving[k].vy

\* 1.5 * (chaos / 100) * (motion / 100) * weight against |v|, v in 1/1000 and
\* the weight times ten
WithinRoleBound(v, chaos, motion, weight) ==
  /\ v * 100000 <= 1500 * chaos * motion * weight
  /\ -v * 100000 <= 1500 * chaos * motion * weight

roleWeight(role) ==
  CASE role = "anchor" -> 3 [] role = "accent" -> 7 [] role = "texture" -> 10

\* every value the shared random() can return, at full chaos and motion
EverySampleBounded ==
  \A s \in 0..233279 : \A role \in {"anchor", "accent", "texture"} :
    WithinRoleBound(velocityOf(s, 100, role, 100), 100, 100, roleWeight(role))

\* C22. Role weights: the velocities addAnimationProperties gives a shape are
\* scaled by 0.3 for an anchor, 0.7 for an accent and 1.0 for texture, so
\* |vx| and |vy| are at most 1.5 * (chaos / 100) * (motion / 100) * weight for
\* every shape, whatever random() returns for a non-negative seed.
RoleWeights ==
  /\ EverySampleBounded
  /\ \A k \in 1..Len(generated) :
       /\ WithinRoleBound(generated[k].vx, args.controls.chaos, args.controls.motion,
                          roleWeight(generated[k].role))
       /\ WithinRoleBound(generated[k].vy, args.controls.chaos, args.controls.motion,
                          roleWeight(generated[k].role))

\* moving shapes of the three roles, a texture shape faster than any anchor
\* may be and an accent faster than any anchor may be
RoleWeightsWitness ==
  /\ Roles(generated) = {"anchor", "accent", "texture"}
  /\ \E k \in 1..Len(generated) :
       /\ generated[k].role = "anchor"
       /\ generated[k].vx # 0
  /\ \E k \in 1..Len(generated) :
       /\ generated[k].role = "texture"
       /\ ~WithinRoleBound(generated[k].vx, args.controls.chaos,
                           args.controls.motion, 3)
  /\ \E k \in 1..Len(generated) :
       /\ generated[k].role = "accent"
       /\ ~WithinRoleBound(generated[k].vy, args.controls.chaos,
                           args.controls.motion, 3)

\* ------------------------------------------------------------------------
\* Further properties of updateAnimatedShapes
\* ------------------------------------------------------------------------
\* addAnimationProperties was called with stationaryMode set
Stationary == \A k \in 1..Len(generated) : generated[k].vx = 0 /\ generated[k].vy = 0

\* C23. In stationary mode the stored position of every shape is, after any
\* sequence of calls of updateAnimatedShapes, the position it was generated
\* at.  This is the statement of the claim; the clamp to the inset box is
\* applied whatever the velocity, so a shape generated within 50 of an edge
\* is moved onto the box by the first call.
StationaryKeepsPosition ==
  Stationary =>
    \A k \in 1..Len(shapesRef) :
      shapesRef[k].x = generated[k].x /\ shapesRef[k].y = generated[k].y

\* C24. Lines do not deform: for every line the segment that renderLine
\* draws, from the origin to (x2 - x, y2 - y), is after any sequence of
\* calls of updateAnimatedShapes the one of the generated shape.  This is
\* the statement of the claim; a call moves or clamps x and y and leaves x2
\* and y2 where they were.
LinesKeepSegment ==
  \A k \in 1..Len(shapesRef) :
    shapesRef[k].type = "line" =>
      /\ shapesRef[k].x2 - shapesRef[k].x = generated[k].x2 - generated[k].x
      /\ shapesRef[k].y2 - shapesRef[k].y = generated[k].y2 - generated[k].y

\* C25. Elastic reflection conserves speed: after any sequence of calls of
\* updateAnimatedShapes the magnitudes of vx and vy and the angular velocity
\* vRotation of every shape are those addAnimationProperties set; a call may
\* only change the sign of vx or vy.
SpeedConserved ==
  \A k \in 1..Len(shapesRef) :
    /\ shapesRef[k].vx \in {generated[k].vx, -generated[k].vx}
    /\ shapesRef[k].vy \in {generated[k].vy, -generated[k].vy}
    /\ shapesRef[k].vRotation = generated[k].vRotation

\* a shape has been reflected in x, another (or the same) in y, and rotates
SpeedConservedWitness ==
  /\ ticks >= 2
  /\ \E k \in 1..Len(shapesRef) :
       /\ generated[k].vx # 0
       /\ shapesRef[k].vx = -generated[k].vx
       /\ shapesRef[k].vRotation # 0
  /\ \E k \in 1..Len(shapesRef) :
       /\ generated[k].vy # 0
       /\ shapesRef[k].vy = -generated[k].vy

\* ------------------------------------------------------------------------
\* Properties of the animation loop across pauses
\* ------------------------------------------------------------------------
\* a frame callback runs in this step, and it is not the first one
LaterFrame == events' = Append(events, "frame") /\ lastTimeRef # 0

\* C26. Time spent paused is not simulated: the deltaTime a frame callback
\* passes to updateAnimatedShapes (the time since the previous call) is at
\* most the time the canvas has been playing since that call, so the first
\* frame after a resume does not include the duration of the pause.
PauseNotSimulated ==
  [][LaterFrame =>
       lastTimeRef' - lastTimeRef <= (now' - lastTimeRef) - pausedFor]_vars

\* C27. At most one animation loop runs: under every interleaving of clicks,
\* changes of props and frame callbacks exactly one requestAnimationFrame
\* callback is pending while the canvas is playing and none while it is
\* paused, and the pending callback is the current animate function.
OneAnimationLoop ==
  /\ Cardinality(pending) = (IF isAnimating THEN 1 ELSE 0)
  /\ \A request \in pending :
       request.id = animationRef /\ request.callback = animate

\* playing again after a pause, a change of props and a frame
OneAnimationLoopWitness ==
  /\ isAnimating
  /\ Cardinality(pending) = 1
  /\ Cardinality({e \in 1..Len(events) : events[e] = "click"}) = 2
  /\ \E e \in 1..Len(events) : events[e] = "props"
  /\ \E e \in 1..Len(events) : events[e] = "frame"
  /\ \E request \in pending : request.callback # animateOf(Config(Square,
         [defaultControls EXCEPT !.density = 42], Aurora, 0, <<>>), TRUE)

\* ------------------------------------------------------------------------
\* Properties of generateTexture
\* ------------------------------------------------------------------------
\* the direction index (sixteenths of a turn) from (x, y) to (x2, y2)
lineDirection(shape) == atan2Dir(shape.y2 - shape.y, shape.x2 - shape.x)

\* the directions of the texture lines of a collection
textureLineDirections(shapes) ==
  { lineDirection(shapes[k]) :
      k \in {j \in 1..Len(shapes) :
               shapes[j].role = "texture" /\ shapes[j].type = "line"} }

\* a free-form composition of a structure above 50 has been generated
Snapping == Generated /\ ~isTextMode(args) /\ args.controls.structure > 50

\* the original statement of C28: the direction of every texture line is one
\* of 0, 45, 90 or 135 degrees
SnappedToQuadrantAngles ==
  Snapping => textureLineDirections(built) \subseteq {0, 2, 4, 6}

\* C28. Texture line snapping: in free-form mode with structure > 50 the
\* direction of every texture line, measured from (x, y) to (x2, y2), is one
\* of 0, 45, 90 or -45 (315) degrees, so that the line it lies on is at 0, 45,
\* 90 or 135 degrees.
SnappedToAxisOrDiagonal ==
  Snapping =>
    /\ textureLineDirections(built) \subseteq {0, 2, 4, 14}
    /\ \A d \in textureLineDirections(built) : d % 8 \in {0, 2, 4, 6}

\* one composition holds texture lines of all four snapped directions
SnappedWitness ==
  Snapping /\ textureLineDirections(built) = {0, 2, 4, 14}

====
